---- MODULE Spec2Model ----
(***************************************************************************)
(* A model of the text-rendering cores of helix:                           *)
(*   - helix-core/src/text_annotations.rs  (Layer, TextAnnotations)        *)
(*   - helix-core/src/doc_formatter.rs     (DocumentFormatter)             *)
(*   - helix-core/src/syntax/overlay.rs    (Overlay, the highlight         *)
(*                                          overlay composer)              *)
(*                                                                         *)
(* A document is a sequence of grapheme clusters.  Clusters are named:     *)
(*   "x"    a one-column, one-char cluster                                 *)
(*   "W"    a two-column, one-char cluster (a wide character)              *)
(*   " "    a space, "TAB" a tab, "LF" "\n", "CRLF" "\r\n" (two chars)     *)
(* Option<T> is a sequence of length 0 (None) or 1 (Some).                 *)
(* usize values are kept as unbounded integers; a subtraction that goes    *)
(* below zero sets debug_panic (overflow checks panic in a debug build)    *)
(* and the negative value n stands for the wrapped value 2^64 + n of a     *)
(* release build (+ and - commute with the wrap).                          *)
(***************************************************************************)
EXTENDS Integers, Sequences, FiniteSets, TLC

\* ---------------------------------------------------------------- bounds
\* longest document, in grapheme clusters
MaxLen == 3
\* widest viewport
MaxViewport == 4
\* next() calls made after the iterator first returned None
MaxExtraCalls == 2
\* longest base stream of highlight events
MaxEvents == 4
\* most spans overlaid on a base stream
MaxSpans == 2
\* largest char offset in a base Source event (spans may reach one further)
MaxPos == 3

None == << >>
Some(x) == << x >>
IsSome(o) == Len(o) > 0
Unwrap(o) == o[1]

RECURSIVE SumSeq(_)
SumSeq(s) == IF s = << >> THEN 0 ELSE Head(s) + SumSeq(Tail(s))

Max2(a, b) == IF a >= b THEN a ELSE b

\* ------------------------------------------------------------ rope (ropey)
\* number of chars of a cluster
LenChars(g) == IF g = "CRLF" THEN 2 ELSE 1

IsLineEnding(g) == g \in {"LF", "CRLF"}

\* char index at which cluster i (1-based) of t starts
TokStart(t, i) == SumSeq([j \in 1..(i - 1) |-> LenChars(t[j])])

TextLenChars(t) == TokStart(t, Len(t) + 1)

\* Rope::char_to_line: the number of line breaks that end at or before c
char_to_line(t, c) ==
    Cardinality({j \in 1..Len(t) : IsLineEnding(t[j]) /\ TokStart(t, j + 1) <= c})

\* Rope::line_to_char: the char index at which line l starts
line_to_char(t, l) ==
    IF l = 0 THEN 0
    ELSE LET ends == {j \in 1..Len(t) : IsLineEnding(t[j])
                        /\ Cardinality({k \in 1..j : IsLineEnding(t[k])}) = l}
         IN IF ends = {} THEN TextLenChars(t)
            ELSE TokStart(t, (CHOOSE j \in ends : TRUE) + 1)

\* index (1-based) of the first cluster that starts at or after char index c
TokAt(t, c) ==
    IF \E i \in 1..Len(t) : TokStart(t, i) >= c
    THEN CHOOSE i \in 1..Len(t) :
            TokStart(t, i) >= c /\ \A j \in 1..(i - 1) : TokStart(t, j) < c
    ELSE Len(t) + 1

\* ------------------------------------------------------- graphemes.rs
GraphemeWidth(g) == IF g = "W" THEN 2 ELSE 1

\* Grapheme::new(raw, visual_x, tab_width)
GraphemeNew(raw, visual_x, tab_width) ==
    IF raw = "TAB"
    THEN [kind |-> "Tab", g |-> raw, width |-> tab_width - (visual_x % tab_width)]
    ELSE IF raw = " "
    THEN [kind |-> "Space", g |-> raw, width |-> 1]
    ELSE IF IsLineEnding(raw)
    THEN [kind |-> "Newline", g |-> raw, width |-> 1]
    ELSE [kind |-> "Other", g |-> raw, width |-> GraphemeWidth(raw)]

GraphemeSpace == [kind |-> "Space", g |-> " ", width |-> 1]

\* ------------------------------------------------------------- state
VARIABLES
    \* the arguments of new_at_prev_block --------------------------------
    text,            \* RopeSlice: the document, a sequence of clusters
    config,          \* TextFormat
    annotations,     \* TextAnnotations: the annotation slices of every layer
    arg_char_idx,    \* the char_idx argument, None before the call
    \* text_annotations.rs ------------------------------------------------
    current_index,   \* Layer::current_index of every layer, per kind
    \* doc_formatter.rs ---------------------------------------------------
    formatter,       \* Option<DocumentFormatter>
    block_char_idx,  \* the second component new_at_prev_block returned
    \* what a caller of the formatter observes -----------------------------
    results,         \* what each next() call returned, with line_pos() before it
    queries,         \* the (kind, char_idx) queries made to TextAnnotations
    debug_panic,     \* a debug build has panicked (debug_assert!, overflow check)
    extra_calls      \* next() calls made since the first None

fmtVars == << text, config, annotations, arg_char_idx, current_index, formatter,
              block_char_idx, results, queries, debug_panic, extra_calls >>

VARIABLES
    \* syntax/overlay.rs: struct Overlay, None before overlay() is called ----
    overlay_state,   \* Option<Overlay>: events, spans, next_event, current_span, queue
    \* the arguments of overlay() ----------------------------------------
    base_events,     \* the events the base iterator will produce
    base_spans,      \* the spans the span iterator will produce
    \* what a caller of the Overlay iterator observes ----------------------
    emitted,         \* what each next() call returned, with where it came from
    overlay_calls    \* next() calls made since the first None

ovVars == << overlay_state, base_events, base_spans, emitted, overlay_calls >>

\* no highlight overlay is under construction
OverlayIdle ==
    /\ overlay_state = None
    /\ base_events = << >>
    /\ base_spans = << >>
    /\ emitted = << >>
    /\ overlay_calls = 0

VARIABLES
    \* helix-event/registry.rs -------------------------------------------
    registry,        \* REGISTRY: the events and handlers maps behind the RwLock
    readers,         \* the threads that hold the read lock of REGISTRY
    threads,         \* where every thread is in the call it is making
    \* what the callers of the event system observe ------------------------
    issued,          \* the calls made so far, in the order they were made
    observed,        \* per call: the hook list a dispatch found under the lock
    returns,         \* the calls that came back, in the order they came back
    invocations,     \* the hook invocations, in the order they were made
    reported         \* the errors handed to log::error! and the status queue

regVars == << registry, readers, threads, issued, observed, returns,
              invocations, reported >>

VARIABLES
    \* helix-event/debounce.rs: the task run(hook, rx) and its channel ------
    deadline,        \* the local `deadline` of run: Option<Instant>
    rx,              \* the messages queued in the mpsc channel, oldest first
    tx_open,         \* a Sender of the channel is still alive
    run_pc,          \* "running" while run loops, "exited" after its break
    sender,          \* where the caller of send_blocking is
    clock,           \* the time, in ticks of 5 ms
    \* what the hook and the callers of send_blocking observe ---------------
    hook_calls,      \* the handle_event and finish_debounce calls, in order
    accepted,        \* the messages the channel accepted, in order
    send_returns     \* how every send_blocking call ended, in order

hookVars == << deadline, rx, tx_open, run_pc, sender, clock, hook_calls,
               accepted, send_returns >>

VARIABLES
    \* helix-vcs/differ.rs: Differ, DiffWorker and the maps they share ------
    channel,         \* the events queued in the unbounded channel
    differ_alive,    \* a Differ (the Sender and the readers' handle) exists
    worker,          \* DiffWorker::run: its locals, its fields, where it is
    maps,            \* the LineDiffs allocations, by address
    line_diffs,      \* the address the ArcSwap holds
    guard,           \* what get_line_diffs gave a reader that still holds it
    \* what the users of the Differ observe --------------------------------
    last_sent,       \* the newest diff base and document handed to the Differ
    updates,         \* the update_document and update_diff_base calls made
    consumed,        \* the newest ropes the worker received, and how many
    publications,    \* the snapshot the worker swapped in last
    receives         \* how the last receive of the debounce loop ended

diffVars == << channel, differ_alive, worker, maps, line_diffs, guard,
               last_sent, updates, consumed, publications, receives >>

VARIABLES
    \* helix-term/ui/document.rs: DecorationManager ------------------------
    position_hooks,  \* the registered (char_idx, decoration) pairs
    current_idx,     \* the cursor into position_hooks
    decorations,     \* how many decorations were added
    \* what the decorations observe ----------------------------------------
    registered,      \* the register_positon calls, in the order made
    rendering,       \* the render pass: prepare_for_rendering and the
                     \* char indices of the decorate_position calls since
    decorated        \* the Decoration::decorate_position invocations

decoVars == << position_hooks, current_idx, decorations, registered, rendering,
               decorated >>

VARIABLES
    \* helix-term/ui/tree.rs: Tree ------------------------------------------
    data_model,      \* TreeData: the children of each path that has some
    nodes,           \* Tree::nodes
    selection,       \* Tree::selection
    top,             \* Tree::top
    height,          \* Tree::height
    scrolloff,       \* Tree::scrolloff
    tree_pc,         \* where the Tree is: idle, inside refresh, or panicked
    refresh_locals,  \* the locals of a refresh under way
    \* what the user of the Tree observes ----------------------------------
    last_call        \* the last call: its arguments, the node list before
                     \* it and its outcome

treeVars == << data_model, nodes, selection, top, height, scrolloff, tree_pc,
               refresh_locals, last_call >>

VARIABLES
    \* helix-term/handlers/completion.rs: CompletionHandler -----------------
    trigger,         \* CompletionHandler::trigger
    request,         \* CompletionHandler::request: the handle, open or closed
    completion_deadline, \* the deadline the runner keeps for the handler
    \* what the senders of the events observe ------------------------------
    handled          \* the last call of the handler: the fields before and
                     \* after it and what it returned

completionVars == << trigger, request, completion_deadline, handled >>

\* the state of the helix-term components
uiVars == << decoVars, treeVars, completionVars >>

\* the helix-term components other than the DecorationManager
otherThanDecorations == << treeVars, completionVars >>

\* the helix-term components other than the Tree
otherThanTree == << decoVars, completionVars >>

\* the helix-term components other than the CompletionHandler
otherThanCompletion == << decoVars, treeVars >>

\* the later subsystems other than the AsyncHook runner
otherThanHook == << diffVars, uiVars >>

\* the later subsystems other than the Differ
otherThanDiffer == << hookVars, uiVars >>

\* the state of the subsystems modelled after the event registry
laterVars == << hookVars, diffVars, uiVars >>

vars == << fmtVars, ovVars, regVars, laterVars >>

\* a caller that is not inside send_blocking
IdleSender == [pc |-> "idle", data |-> 0, since |-> 0]

\* no AsyncHook was spawned
HookIdle ==
    /\ deadline = << >>
    /\ rx = << >>
    /\ tx_open = FALSE
    /\ run_pc = "exited"
    /\ sender = IdleSender
    /\ clock = 0
    /\ hook_calls = << >>
    /\ accepted = << >>
    /\ send_returns = << >>

\* no Differ was created
DifferIdle ==
    /\ channel = << >>
    /\ differ_alive = FALSE
    /\ worker = [pc |-> "exited"]
    /\ maps = << >>
    /\ line_diffs = 0
    /\ guard = << >>
    /\ last_sent = [diff_base |-> << >>, doc |-> << >>]
    /\ updates = 0
    /\ consumed = [diff_base |-> << >>, doc |-> << >>, events |-> 0, bursts |-> 0]
    /\ publications = << >>
    /\ receives = << >>

\* no render pass: DecorationManager::default()
NoRendering == [prepared |-> FALSE, first_visible_char |-> 0, positions |-> << >>]

DecorationsIdle ==
    /\ position_hooks = << >>
    /\ current_idx = 0
    /\ decorations = 0
    /\ registered = << >>
    /\ rendering = NoRendering
    /\ decorated = << >>

\* no refresh under way
NoRefresh == [unexpanded_nodes |-> << >>, new_nodes |-> << >>, i |-> 0]

\* no call made yet
NoCall ==
    [op |-> "new", arg |-> << >>, before |-> << >>, selection |-> 0, top |-> 0,
     outcome |-> "Ok"]

\* no Tree was constructed
TreeIdle ==
    /\ data_model = << >>
    /\ nodes = << >>
    /\ selection = 0
    /\ top = 0
    /\ height = 0
    /\ scrolloff = 0
    /\ tree_pc = "dropped"
    /\ refresh_locals = NoRefresh
    /\ last_call = NoCall

\* no call of the CompletionHandler yet
NotHandled ==
    [op |-> "new",
     event |-> << >>,
     before |-> [trigger |-> << >>, request |-> << >>],
     after |-> [trigger |-> << >>, request |-> << >>],
     returned |-> << >>]

\* no CompletionHandler was spawned
CompletionIdle ==
    /\ trigger = << >>
    /\ request = << >>
    /\ completion_deadline = << >>
    /\ handled = NotHandled

\* no component of helix-term is in use
UiIdle ==
    /\ DecorationsIdle
    /\ TreeIdle
    /\ CompletionIdle

\* none of the later subsystems is in use
LaterIdle ==
    /\ HookIdle
    /\ DifferIdle
    /\ UiIdle

\* the identifiers of the events, as stringify!(name) of the events! macro
EventIds == {"Event1", "Event2"}

\* REGISTRY as the runtime_local! block constructs it: both maps empty
NewRegistry ==
    [events |-> [id \in EventIds |-> << >>],
     handlers |-> [id \in EventIds |-> << >>]]

\* a thread that is in no call of the event system
IdleThread == [pc |-> "idle", call |-> 0, index |-> 0, dispatch |-> 0]

\* the threads that call into the event system
NumThreads == 2

Threads == 1..NumThreads

\* the event system is not in use
RegistryIdle ==
    /\ registry = NewRegistry
    /\ readers = {}
    /\ threads = [t \in Threads |-> IdleThread]
    /\ issued = << >>
    /\ observed = << >>
    /\ returns = << >>
    /\ invocations = << >>
    /\ reported = << >>

\* -------------------------------------------------- text_annotations.rs
\* The outcomes of slice::binary_search_by_key followed by
\* unwrap_or_else(identity): the (0-based) index of ANY element whose key
\* equals char_idx when there is one (the standard library promises no
\* particular one), else the insertion point.
BinarySearchOutcomes(keys, char_idx) ==
    LET hits == {i \in 1..Len(keys) : keys[i] = char_idx}
    IN IF hits # {} THEN {i - 1 : i \in hits}
       ELSE {Cardinality({i \in 1..Len(keys) : keys[i] < char_idx})}

Keys(layer) == [i \in 1..Len(layer) |-> layer[i].char_idx]

\* Layer::reset_pos: the values current_index may have afterwards
LayerResetPos(layer, char_idx) == BinarySearchOutcomes(Keys(layer), char_idx)

\* reset_pos(layers, pos, get_pos): every layer is reset
LayersResetPos(layers, pos) ==
    {cs \in [1..Len(layers) -> 0..SumSeq([l \in 1..Len(layers) |-> Len(layers[l])])] :
        \A l \in 1..Len(layers) : cs[l] \in LayerResetPos(layers[l], pos)}

\* TextAnnotations::reset_pos
TextAnnotationsResetPos(char_idx) ==
    {[inline |-> a, overlay |-> b, line |-> c] :
        a \in LayersResetPos(annotations.inline_annotations, char_idx),
        b \in LayersResetPos(annotations.overlays, char_idx),
        c \in LayersResetPos(annotations.line_annotations, char_idx)}

\* Layer::consume(char_idx): hit, the new current_index, and whether the
\* debug_assert!(get_char_idx(annot) >= char_idx) fails
LayerConsume(layer, ci, char_idx) ==
    IF ci >= Len(layer)
    THEN [hit |-> FALSE, ci |-> ci, bad |-> FALSE]
    ELSE IF layer[ci + 1].char_idx = char_idx
    THEN [hit |-> TRUE, ci |-> ci + 1, bad |-> FALSE]
    ELSE [hit |-> FALSE, ci |-> ci, bad |-> layer[ci + 1].char_idx < char_idx]

\* TextAnnotations::next_inline_annotation_at: find_map over the layers in
\* registration order; the layers before the first hit are consulted (and
\* may fail their debug_assert), the layers after it are not touched.
\* st is [f, cur, q, dp]: formatter, cursors, query log, debug panic.
next_inline_annotation_at(st, char_idx) ==
    LET layers == annotations.inline_annotations
        c(l) == LayerConsume(layers[l], st.cur.inline[l], char_idx)
        hits == {l \in 1..Len(layers) : c(l).hit}
        first == IF hits = {} THEN 0
                 ELSE CHOOSE l \in hits : \A m \in hits : l <= m
        seen == IF first = 0 THEN 1..Len(layers) ELSE 1..first
    IN [st |-> [st EXCEPT
                 !.cur.inline = [l \in 1..Len(layers) |->
                                   IF l = first THEN c(l).ci ELSE st.cur.inline[l]],
                 !.q = Append(st.q, [kind |-> "inline", char_idx |-> char_idx]),
                 !.dp = st.dp \/ \E l \in seen : c(l).bad],
        layer |-> first,
        annot |-> IF first = 0 THEN 0 ELSE st.cur.inline[first] + 1]

\* TextAnnotations::overlay_at: every layer is consumed, the last hit wins
overlay_at(st, char_idx) ==
    LET layers == annotations.overlays
        c(l) == LayerConsume(layers[l], st.cur.overlay[l], char_idx)
        hits == {l \in 1..Len(layers) : c(l).hit}
        last == IF hits = {} THEN 0
                ELSE CHOOSE l \in hits : \A m \in hits : l >= m
    IN [st |-> [st EXCEPT
                 !.cur.overlay = [l \in 1..Len(layers) |-> c(l).ci],
                 !.q = Append(st.q, [kind |-> "overlay", char_idx |-> char_idx]),
                 !.dp = st.dp \/ \E l \in 1..Len(layers) : c(l).bad],
        layer |-> last,
        annot |-> IF last = 0 THEN 0 ELSE st.cur.overlay[last] + 1]

\* the while loop of annotation_lines_at for one layer:
\* the number of annotations consumed from cursor ci
RECURSIVE LineRun(_, _, _)
LineRun(layer, ci, char_idx) ==
    IF ci < Len(layer) /\ layer[ci + 1].char_idx = char_idx
    THEN 1 + LineRun(layer, ci + 1, char_idx)
    ELSE 0

\* TextAnnotations::annotation_lines_at
annotation_lines_at(st, char_idx) ==
    LET layers == annotations.line_annotations
        n(l) == LineRun(layers[l], st.cur.line[l], char_idx)
        h(l) == SumSeq([k \in 1..n(l) |-> layers[l][st.cur.line[l] + k].height])
    IN [st |-> [st EXCEPT
                 !.cur.line = [l \in 1..Len(layers) |-> st.cur.line[l] + n(l)],
                 !.q = Append(st.q, [kind |-> "line", char_idx |-> char_idx])],
        lines |-> SumSeq([l \in 1..Len(layers) |-> h(l)])]

\* ----------------------------------------------------- doc_formatter.rs
\* FormattedGrapheme::new.  src is not a field of the struct: it records
\* where the grapheme came from (document cluster, inline annotation, end of
\* file) so that properties can speak about it.
FormattedGraphemeNew(raw, highlight, visual_x, tab_width, chars, src) ==
    [grapheme |-> GraphemeNew(raw, visual_x, tab_width),
     highlight |-> highlight,
     doc_chars |-> chars,
     src |-> src]

\* FormattedGrapheme::placeholder, and the end-of-file grapheme
NoSrc == [from |-> "eof", tok |-> 0, layer |-> 0, annot |-> 0]

EofGrapheme ==
    [grapheme |-> GraphemeSpace, highlight |-> None, doc_chars |-> 0, src |-> NoSrc]

\* next_inline_annotation_grapheme: r is what next_inline_annotation_at
\* returned; a new annotation is taken up, or there is none at char_pos
RECURSIVE next_inline_annotation_grapheme(_)
InlineAnnotationTaken(r) ==
    IF r.layer # 0
    THEN next_inline_annotation_grapheme(
           [r.st EXCEPT !.f.inline_anntoation_graphemes =
              Some([rest |-> annotations.inline_annotations[r.layer][r.annot].text,
                    highlight |->
                        annotations.inline_annotations[r.layer][r.annot].highlight,
                    layer |-> r.layer, annot |-> r.annot])])
    ELSE [st |-> r.st, res |-> None]

\* DocumentFormatter::next_inline_annotation_grapheme
next_inline_annotation_grapheme(st) ==
    LET cur == st.f.inline_anntoation_graphemes
    IN IF IsSome(cur) /\ Unwrap(cur).rest # << >>
       THEN [st |-> [st EXCEPT !.f.inline_anntoation_graphemes =
                        Some([Unwrap(cur) EXCEPT !.rest = Tail(@)])],
             res |-> Some([g |-> Head(Unwrap(cur).rest),
                           highlight |-> Unwrap(cur).highlight,
                           layer |-> Unwrap(cur).layer,
                           annot |-> Unwrap(cur).annot])]
       ELSE InlineAnnotationTaken(next_inline_annotation_at(st, st.f.char_pos))

\* advance_grapheme: the document grapheme tok, o is what overlay_at returned
DocGraphemeOverlaid(o, tok, col) ==
    [st |-> [o.st EXCEPT !.f.char_pos = @ + LenChars(text[tok])],
     res |-> Some(FormattedGraphemeNew(
                IF o.layer # 0
                THEN annotations.overlays[o.layer][o.annot].grapheme
                ELSE text[tok],
                None, col, config.tab_width, LenChars(text[tok]),
                [from |-> "doc", tok |-> tok, layer |-> o.layer, annot |-> o.annot]))]

\* advance_grapheme: the document grapheme tok, l is what annotation_lines_at
\* returned
DocGraphemeLines(l, tok, col) ==
    DocGraphemeOverlaid(
        overlay_at([l.st EXCEPT !.f.virtual_lines = @ + l.lines,
                                !.f.lines_consumed = @ + l.lines], l.st.f.char_pos),
        tok, col)

\* advance_grapheme: a is what next_inline_annotation_grapheme returned
GraphemeAfterInline(a, col) ==
    IF IsSome(a.res)
    THEN [st |-> a.st,
          res |-> Some(FormattedGraphemeNew(
                     Unwrap(a.res).g, Some(Unwrap(a.res).highlight), col,
                     config.tab_width, 0,
                     [from |-> "inline", tok |-> 0,
                      layer |-> Unwrap(a.res).layer,
                      annot |-> Unwrap(a.res).annot]))]
    ELSE IF a.st.f.graphemes <= Len(text)
    THEN DocGraphemeLines(
           annotation_lines_at([a.st EXCEPT !.f.graphemes = @ + 1], a.st.f.char_pos),
           a.st.f.graphemes, col)
    ELSE IF a.st.f.exhausted
    THEN [st |-> a.st, res |-> None]
    ELSE [st |-> [a.st EXCEPT !.f.exhausted = TRUE], res |-> Some(EofGrapheme)]

\* DocumentFormatter::advance_grapheme(col)
advance_grapheme(st, col) ==
    GraphemeAfterInline(next_inline_annotation_grapheme(st), col)

\* a formatter that lets a word run one column past the viewport
MustWrapLate(word_width, col) == word_width + col > config.viewport_width + 1

\* advance_to_next_word: "softwrap word if necessary"
MustWrap(word_width, col) == word_width + col >= config.viewport_width

\* advance_to_next_word: the word is too long to be wrapped whole
SplitWord(word_width) == word_width > config.max_wrap

\* advance_to_next_word: the last grapheme extends beyond the end of the line
Overflows(word_width, col) == word_width + col > config.viewport_width

\* a formatter that carries no indent over to a wrapped line
LineIndentNoCarry(indent_level) == config.wrap_indent

\* advance_to_next_word: line_indent, from indent_carry_over and wrap_indent
LineIndent(indent_level) ==
    LET indent_carry_over ==
            IF IsSome(indent_level) /\ Unwrap(indent_level) <= config.max_indent_retain
            THEN Unwrap(indent_level) ELSE 0
    IN indent_carry_over + config.wrap_indent

\* advance_to_next_word: visual_pos after the word is wrapped to the next line
WrappedPos(pos, virtual_lines_before_word, line_indent) ==
    [row |-> pos.row + 1 + virtual_lines_before_word, col |-> line_indent]

\* next: visual_pos after a Newline is yielded
NewlinePos(pos, virtual_lines) ==
    [row |-> pos.row + 1 + virtual_lines, col |-> 0]

\* new_at_prev_block: the initial char_pos of the formatter
InitialCharPos(block_start) == 0

\* advance_to_next_word: the word is split at the line end; the last
\* grapheme goes back to peeked_grapheme when it extends beyond the line
SplitAtLineEnd(st, word_width, virtual_lines_before_grapheme) ==
    IF Overflows(word_width, st.f.visual_pos.col)
    THEN [st EXCEPT
            !.f.peeked_grapheme =
                IF st.f.word_buf = << >> THEN None
                ELSE Some([grapheme |-> st.f.word_buf[Len(st.f.word_buf)],
                           virtual_lines |->
                               st.f.virtual_lines - virtual_lines_before_grapheme]),
            !.f.word_buf =
                IF st.f.word_buf = << >> THEN << >>
                ELSE SubSeq(st.f.word_buf, 1, Len(st.f.word_buf) - 1),
            !.f.virtual_lines = virtual_lines_before_grapheme,
            !.dp = st.dp \/ (st.f.word_buf # << >>
                             /\ st.f.virtual_lines < virtual_lines_before_grapheme)]
    ELSE st

\* advance_to_next_word: the word is soft-wrapped to the next line
WrapToNextLine(st, virtual_lines_before_word) ==
    [st EXCEPT
        !.f.visual_pos = WrappedPos(st.f.visual_pos, virtual_lines_before_word,
                                    LineIndent(st.f.indent_level)),
        !.f.virtual_lines = st.f.virtual_lines - virtual_lines_before_word,
        !.f.soft_wraps = @ + 1,
        !.dp = st.dp \/ st.f.virtual_lines < virtual_lines_before_word]

\* advance_to_next_word: the peeked grapheme is taken
TakePeeked(st) ==
    [st |-> [st EXCEPT
               !.f.peeked_grapheme = None,
               !.f.virtual_lines = @ + Unwrap(st.f.peeked_grapheme).virtual_lines],
     res |-> Some(Unwrap(st.f.peeked_grapheme).grapheme)]

\* the loop of DocumentFormatter::advance_to_next_word; word_width,
\* virtual_lines_before_word and virtual_lines_before_grapheme are its locals
RECURSIVE WordLoop(_, _, _, _)
\* advance_to_next_word: the match on the grapheme taken; the loop goes on
\* after a grapheme that is neither a line break nor white space
PushGrapheme(taken, word_width, virtual_lines_before_word, virtual_lines_before_grapheme) ==
    IF ~IsSome(taken.res) THEN taken.st
    ELSE IF Unwrap(taken.res).grapheme.kind = "Newline"
    THEN [taken.st EXCEPT !.f.word_buf = Append(@, Unwrap(taken.res)),
                          !.f.indent_level = None]
    ELSE IF Unwrap(taken.res).grapheme.kind \in {"Space", "Tab"}
    THEN [taken.st EXCEPT !.f.word_buf = Append(@, Unwrap(taken.res))]
    ELSE WordLoop([taken.st EXCEPT
                     !.f.word_buf = Append(@, Unwrap(taken.res)),
                     !.f.indent_level =
                         IF IsSome(@) THEN @ ELSE Some(taken.st.f.visual_pos.col)],
                  word_width + Unwrap(taken.res).grapheme.width,
                  virtual_lines_before_word, virtual_lines_before_grapheme)

\* advance_to_next_word: the grapheme taken is the peeked one, else a freshly
\* advanced one
TakeGrapheme(st, word_width, virtual_lines_before_word) ==
    PushGrapheme(IF IsSome(st.f.peeked_grapheme) THEN TakePeeked(st)
                 ELSE advance_grapheme(st, st.f.visual_pos.col + word_width),
                 word_width, virtual_lines_before_word, st.f.virtual_lines)

WordLoop(st, word_width, virtual_lines_before_word, virtual_lines_before_grapheme) ==
    IF MustWrap(word_width, st.f.visual_pos.col)
    THEN IF SplitWord(word_width)
         THEN SplitAtLineEnd(st, word_width, virtual_lines_before_grapheme)
         ELSE TakeGrapheme(WrapToNextLine(st, virtual_lines_before_word),
                           word_width, virtual_lines_before_word)
    ELSE TakeGrapheme(st, word_width, virtual_lines_before_word)

\* DocumentFormatter::advance_to_next_word
advance_to_next_word(st) ==
    WordLoop([st EXCEPT !.f.word_buf = << >>], 0,
             st.f.virtual_lines, st.f.virtual_lines)

\* next: the grapheme at word_i is taken out of word_buf, if there is one
TakeFromWordBuf(st) ==
    IF st.f.word_i >= Len(st.f.word_buf)
    THEN [st |-> st, res |-> None]
    ELSE [st |-> [st EXCEPT
                    !.f.word_buf[st.f.word_i + 1] = EofGrapheme,
                    !.f.word_i = @ + 1],
          res |-> Some(st.f.word_buf[st.f.word_i + 1])]

\* next: the soft-wrap branch
NextSoftWrapped(st) ==
    TakeFromWordBuf(IF st.f.word_i >= Len(st.f.word_buf)
                    THEN [advance_to_next_word(st) EXCEPT !.f.word_i = 0]
                    ELSE st)

\* next: the position is advanced past the grapheme got
YieldGrapheme(got) ==
    IF ~IsSome(got.res) THEN [st |-> got.st, res |-> None]
    ELSE IF Unwrap(got.res).grapheme.kind = "Newline"
    THEN [st |-> [got.st EXCEPT
                    !.f.visual_pos = NewlinePos(got.st.f.visual_pos,
                                                got.st.f.virtual_lines),
                    !.f.virtual_lines = 0,
                    !.f.line_pos = @ + 1],
          res |-> Some([grapheme |-> Unwrap(got.res), pos |-> got.st.f.visual_pos])]
    ELSE [st |-> [got.st EXCEPT
                    !.f.visual_pos.col = @ + Unwrap(got.res).grapheme.width],
          res |-> Some([grapheme |-> Unwrap(got.res), pos |-> got.st.f.visual_pos])]

\* <DocumentFormatter as Iterator>::next: the state after the call and
\* the Option it returns
IteratorNext(st) ==
    YieldGrapheme(IF config.soft_wrap THEN NextSoftWrapped(st)
                  ELSE advance_grapheme(st, st.f.visual_pos.col))

\* DocumentFormatter::line_pos
line_pos_of(f) == f.line_pos

\* a constructor that starts one line too early
PrevLineIdx(t, char_idx) == Max2(char_to_line(t, char_idx) - 1, 0)

\* new_at_prev_block: block_line_idx and block_char_idx
BlockLineIdx(t, char_idx) == char_to_line(t, char_idx)

BlockCharIdx(t, block_line_idx) == line_to_char(t, block_line_idx)

\* DocumentFormatter::new_at_prev_block: the formatter and the block start.
\* soft_wraps and lines_consumed are not fields of the struct: they count the
\* soft wraps performed and the line-annotation heights consumed, so that
\* properties can speak about them.
new_at_prev_block(char_idx) ==
    LET block_line_idx == BlockLineIdx(text, char_idx)
        block_start == BlockCharIdx(text, block_line_idx)
    IN [formatter |->
           [visual_pos |-> [row |-> 0, col |-> 0],
            graphemes |-> TokAt(text, block_start),
            char_pos |-> InitialCharPos(block_start),
            exhausted |-> FALSE,
            virtual_lines |-> 0,
            indent_level |-> None,
            peeked_grapheme |-> None,
            word_buf |-> << >>,
            word_i |-> 0,
            line_pos |-> block_line_idx,
            inline_anntoation_graphemes |-> None,
            soft_wraps |-> 0,
            lines_consumed |-> 0],
        block_char_idx |-> block_start]

\* --------------------------------------------------------------- actions
\* a caller builds a formatter: new_at_prev_block(text, config, annotations, c)
NewAtPrevBlock ==
    /\ formatter = None
    /\ \E c \in 0..TextLenChars(text) :
         LET n == new_at_prev_block(c)
         IN /\ arg_char_idx' = Some(c)
            /\ formatter' = Some(n.formatter)
            /\ block_char_idx' = n.block_char_idx
            /\ current_index' \in TextAnnotationsResetPos(n.block_char_idx)
    /\ UNCHANGED << text, config, annotations, results, queries, debug_panic,
                    extra_calls >>
    /\ UNCHANGED ovVars
    /\ UNCHANGED regVars
    /\ UNCHANGED laterVars

\* a caller calls next() on the formatter
NextCall ==
    /\ IsSome(formatter)
    /\ extra_calls < MaxExtraCalls
    /\ LET r == IteratorNext([f |-> Unwrap(formatter), cur |-> current_index,
                              q |-> queries, dp |-> debug_panic])
       IN /\ formatter' = Some(r.st.f)
          /\ current_index' = r.st.cur
          /\ queries' = r.st.q
          /\ debug_panic' = r.st.dp
          /\ results' = Append(results,
                               [item |-> r.res,
                                line_pos |-> line_pos_of(Unwrap(formatter))])
          /\ extra_calls' = IF IsSome(r.res) /\ extra_calls = 0 THEN 0
                            ELSE extra_calls + 1
    /\ UNCHANGED << text, config, annotations, arg_char_idx, block_char_idx >>
    /\ UNCHANGED ovVars
    /\ UNCHANGED regVars
    /\ UNCHANGED laterVars

\* ------------------------------------------------- inputs of the formatter
Alphabet == {"x", "W", " ", "TAB", "LF", "CRLF"}

SeqsUpTo(S, n) == UNION {[1..k -> S] : k \in 0..n}

Texts(alphabet) == SeqsUpTo(alphabet, MaxLen)

\* the char indices at which a cluster of t starts, and the end of t
Boundaries(t) == {TokStart(t, i) : i \in 1..(Len(t) + 1)}

Sorted(layer) ==
    \A i \in 1..(Len(layer) - 1) : layer[i].char_idx <= layer[i + 1].char_idx

StrictlySorted(layer) ==
    \A i \in 1..(Len(layer) - 1) : layer[i].char_idx < layer[i + 1].char_idx

\* a slice of InlineAnnotation, sorted by char_idx (equal char_idx allowed)
InlineSlices(t, n, texts) ==
    {l \in SeqsUpTo([char_idx : Boundaries(t), text : texts, highlight : {0}], n) :
        Sorted(l)}

\* a slice of Overlay, one per document cluster at most
OverlaySlices(t, n, clusters) ==
    {l \in SeqsUpTo([char_idx : Boundaries(t) \ {TextLenChars(t)},
                     grapheme : clusters], n) : StrictlySorted(l)}

\* a slice of LineAnnotation (char_idx is its anchor_char_idx)
LineSlices(t, n, heights) ==
    {l \in SeqsUpTo([char_idx : Boundaries(t) \ {TextLenChars(t)},
                     height : heights], n) : Sorted(l)}

NoAnnotations ==
    [inline_annotations |-> << >>, overlays |-> << >>, line_annotations |-> << >>]

NoSoftWrap ==
    [soft_wrap |-> FALSE, tab_width |-> 2, max_wrap |-> 1, max_indent_retain |-> 0,
     wrap_indent |-> 1, viewport_width |-> MaxViewport]

\* every TextFormat with soft wrap of the box
AnySoftWrap ==
    [soft_wrap : {TRUE}, tab_width : {2}, max_wrap : 0..2, max_indent_retain : 0..1,
     wrap_indent : 0..2, viewport_width : 1..MaxViewport]

\* A TextFormat in which a wrapped word fits on the line it is wrapped to:
\* what is left of the viewport after the largest line indent exceeds max_wrap.
\* (helix-view builds its TextFormat with max_wrap <= viewport_width / 4 and
\* max_indent_retain <= viewport_width * 2 / 5.)
WrapFits(c) == c.wrap_indent + c.max_indent_retain + c.max_wrap < c.viewport_width

SoftWrap == {c \in AnySoftWrap : WrapFits(c)}

\* the largest soft-wrap format of the box used with annotations
WideSoftWrap ==
    [soft_wrap |-> TRUE, tab_width |-> 2, max_wrap |-> 1, max_indent_retain |-> 1,
     wrap_indent |-> 1, viewport_width |-> MaxViewport]

\* The documents and layers the formatter is run on.
\* Every text of the wrap alphabet with no annotation:
PlainInputs(formats) ==
    {[text |-> t, config |-> c, annotations |-> NoAnnotations] :
        t \in Texts(Alphabet \ {"CRLF"}), c \in formats}

\* two inline layers on the texts of x and LF:
InlineInputs ==
    UNION {{[text |-> t, config |-> c,
             annotations |-> [NoAnnotations EXCEPT !.inline_annotations = << a, b >>]] :
              c \in {NoSoftWrap, WideSoftWrap},
              a \in InlineSlices(t, 2, {<< "x" >>, << "LF", "x" >>}),
              b \in InlineSlices(t, 1, {<< "x" >>})} :
           t \in Texts({"x", "LF"})}

\* two overlay layers on the texts of x and CRLF:
OverlayInputs ==
    UNION {{[text |-> t, config |-> c,
             annotations |-> [NoAnnotations EXCEPT !.overlays = << a, b >>]] :
              c \in {NoSoftWrap, WideSoftWrap},
              a \in OverlaySlices(t, 2, {"W", "LF"}),
              b \in OverlaySlices(t, 1, {"x"})} :
           t \in Texts({"x", "CRLF"})}

\* one layer of line annotations on the texts of x, space and LF:
LineInputs(formats) ==
    UNION {{[text |-> t, config |-> c,
             annotations |-> [NoAnnotations EXCEPT !.line_annotations = << a >>]] :
              c \in {f \in formats : f.max_indent_retain = 0 /\ f.wrap_indent = 1},
              a \in LineSlices(t, 2, {1})} :
           t \in Texts({"x", " ", "LF"})}

FormatterInit(inputs) ==
    /\ \E i \in inputs :
         /\ text = i.text
         /\ config = i.config
         /\ annotations = i.annotations
         /\ current_index =
              [inline |-> [l \in 1..Len(i.annotations.inline_annotations) |-> 0],
               overlay |-> [l \in 1..Len(i.annotations.overlays) |-> 0],
               line |-> [l \in 1..Len(i.annotations.line_annotations) |-> 0]]
    /\ arg_char_idx = None
    /\ formatter = None
    /\ block_char_idx = 0
    /\ results = << >>
    /\ queries = << >>
    /\ debug_panic = FALSE
    /\ extra_calls = 0
    /\ OverlayIdle
    /\ RegistryIdle
    /\ LaterIdle

\* ------------------------------------------------------ syntax/overlay.rs
\* HighlightEvent, with every variant carrying the same fields
HighlightStart(scope) ==
    [type |-> "HighlightStart", scope |-> scope, start |-> 0, end |-> 0]

HighlightEnd == [type |-> "HighlightEnd", scope |-> 0, start |-> 0, end |-> 0]

Source(start, end) == [type |-> "Source", scope |-> 0, start |-> start, end |-> end]

IsSource(o) == IsSome(o) /\ Unwrap(o).type = "Source"

\* Iterator::next of the events and spans iterators: the head or None
IterNext(it) ==
    IF it = << >> THEN [item |-> None, rest |-> << >>]
    ELSE [item |-> Some(Head(it)), rest |-> Tail(it)]

\* an event the composer returns, tagged with the iterator it is due to
Tagged(event, from) == [event |-> event, from |-> from]

\* EventQueue::push
EventQueuePush(queue, tagged) == Append(queue, tagged)

\* a queue that hands out the event pushed first
EventQueuePopFirst(queue) ==
    IF Len(queue) > 0
    THEN [res |-> Some(Head(queue)), queue |-> Tail(queue)]
    ELSE [res |-> None, queue |-> queue]

\* EventQueue::pop: the event pushed last
EventQueuePop(queue) ==
    IF Len(queue) > 0
    THEN [res |-> Some(queue[Len(queue)]), queue |-> SubSeq(queue, 1, Len(queue) - 1)]
    ELSE [res |-> None, queue |-> queue]

\* overlay(): the composer with its first event and span fetched
overlay(events, spans) ==
    [events |-> IterNext(events).rest,
     spans |-> IterNext(spans).rest,
     next_event |-> IterNext(events).item,
     current_span |-> IterNext(spans).item,
     queue |-> << >>]

\* Overlay::partition_source_event: the composer and the first part
partition_source_event(o, start, end, partition_point) ==
    [o |-> [o EXCEPT !.next_event = Some(Source(partition_point, end))],
     res |-> Source(start, partition_point)]

\* Overlay::next: skip empty spans and spans that end before this source
RECURSIVE SkipSpans(_, _)
SkipSpans(o, start) ==
    IF IsSome(o.current_span)
       /\ (Unwrap(o.current_span).end <= start
           \/ Unwrap(o.current_span).start = Unwrap(o.current_span).end)
    THEN SkipSpans([o EXCEPT !.current_span = IterNext(o.spans).item,
                             !.spans = IterNext(o.spans).rest], start)
    ELSE o

\* Overlay::next: the match on replace(&mut self.next_event, self.events.next())
EndOfLoop(o) ==
    LET o1 == [o EXCEPT !.next_event = IterNext(o.events).item,
                        !.events = IterNext(o.events).rest]
    IN IF IsSome(o.next_event)
       THEN [o |-> o1, res |-> Some(Tagged(Unwrap(o.next_event), "events"))]
       ELSE IF IsSome(o1.current_span)
       THEN LET span == Unwrap(o1.current_span)
                q1 == EventQueuePush(o1.queue, Tagged(HighlightEnd, "spans"))
                q2 == EventQueuePush(q1, Tagged(Source(span.start, span.end), "spans"))
            IN [o |-> [o1 EXCEPT !.current_span = None, !.queue = q2],
                res |-> Some(Tagged(HighlightStart(span.scope), "spans"))]
       ELSE [o |-> o1, res |-> None]

\* a composer that highlights the whole source whatever the end of the span
HighlightWholeSource(o, start, end) ==
    [o |-> [o EXCEPT !.next_event = IterNext(o.events).item,
                     !.events = IterNext(o.events).rest,
                     !.current_span = IterNext(o.spans).item,
                     !.spans = IterNext(o.spans).rest,
                     !.queue = EventQueuePush(
                                   EventQueuePush(o.queue, Tagged(HighlightEnd, "spans")),
                                   Tagged(Source(start, end), "events"))],
     res |-> Some(Tagged(HighlightStart(Unwrap(o.current_span).scope), "spans"))]

\* Overlay::next: the span covers the start of the source
HighlightSource(o, start, end) ==
    LET span == Unwrap(o.current_span)
        q1 == EventQueuePush(o.queue, Tagged(HighlightEnd, "spans"))
        o1 == IF span.end <= end
              THEN [o EXCEPT !.current_span = IterNext(o.spans).item,
                             !.spans = IterNext(o.spans).rest]
              ELSE o
        part == partition_source_event(o1, start, end, span.end)
        o2 == IF span.end < end THEN part.o
              ELSE [o1 EXCEPT !.next_event = IterNext(o1.events).item,
                              !.events = IterNext(o1.events).rest]
        event == IF span.end < end THEN part.res ELSE Source(start, end)
    IN [o |-> [o2 EXCEPT !.queue = EventQueuePush(q1, Tagged(event, "events"))],
        res |-> Some(Tagged(HighlightStart(span.scope), "spans"))]

\* Overlay::next: the while loop over Source events
RECURSIVE SourceLoop(_)
SourceLoop(o) ==
    IF ~IsSource(o.next_event) THEN EndOfLoop(o)
    ELSE LET start == Unwrap(o.next_event).start
             end == Unwrap(o.next_event).end
         IN IF start = end
            THEN SourceLoop([o EXCEPT !.next_event = IterNext(o.events).item,
                                      !.events = IterNext(o.events).rest])
            ELSE LET o1 == SkipSpans(o, start)
                 IN IF IsSome(o1.current_span) /\ Unwrap(o1.current_span).start < end
                    THEN IF start < Unwrap(o1.current_span).start
                         THEN LET part == partition_source_event(
                                              o1, start, end,
                                              Unwrap(o1.current_span).start)
                              IN [o |-> part.o,
                                  res |-> Some(Tagged(part.res, "events"))]
                         ELSE HighlightSource(o1, start, end)
                    ELSE EndOfLoop(o1)

\* a composer that reads the base stream whatever is queued
OverlayNextWithoutPop(o) == SourceLoop(o)

\* Overlay::next
OverlayIteratorNext(o) ==
    LET popped == EventQueuePop(o.queue)
    IN IF IsSome(popped.res)
       THEN [o |-> [o EXCEPT !.queue = popped.queue], res |-> popped.res]
       ELSE SourceLoop(o)

\* a caller builds the composer from a base stream and a span list
OverlayNew ==
    /\ overlay_state = None
    /\ overlay_state' = Some(overlay(base_events, base_spans))
    /\ UNCHANGED << base_events, base_spans, emitted, overlay_calls >>
    /\ UNCHANGED fmtVars
    /\ UNCHANGED regVars
    /\ UNCHANGED laterVars

\* a caller calls next() on the composer
OverlayNextCall ==
    /\ IsSome(overlay_state)
    /\ overlay_calls < MaxExtraCalls
    /\ LET r == OverlayIteratorNext(Unwrap(overlay_state))
       IN /\ overlay_state' = Some(r.o)
          /\ emitted' = Append(emitted, r.res)
          /\ overlay_calls' = IF IsSome(r.res) /\ overlay_calls = 0 THEN 0
                              ELSE overlay_calls + 1
    /\ UNCHANGED << base_events, base_spans >>
    /\ UNCHANGED fmtVars
    /\ UNCHANGED regVars
    /\ UNCHANGED laterVars

\* ------------------------------------------------- inputs of the composer
BaseAlphabet ==
    {HighlightStart(1), HighlightEnd}
    \cup UNION {{Source(s, e) : e \in s..MaxPos} : s \in 0..MaxPos}

\* the HighlightStart events minus the HighlightEnd events of a stream
RECURSIVE Depth(_)
Depth(evs) ==
    IF evs = << >> THEN 0
    ELSE Depth(SubSeq(evs, 1, Len(evs) - 1))
         + (IF evs[Len(evs)].type = "HighlightStart" THEN 1
            ELSE IF evs[Len(evs)].type = "HighlightEnd" THEN -1 ELSE 0)

Balanced(evs) ==
    /\ Depth(evs) = 0
    /\ \A n \in 1..Len(evs) : Depth(SubSeq(evs, 1, n)) >= 0

\* the Source events of a stream are ranges in ascending order
SourcesAscend(evs) ==
    /\ \A n \in 1..Len(evs) : evs[n].type = "Source" => evs[n].start <= evs[n].end
    /\ \A m, n \in 1..Len(evs) :
          (m < n /\ evs[m].type = "Source" /\ evs[n].type = "Source")
              => evs[m].end <= evs[n].start

BaseStreams ==
    {evs \in SeqsUpTo(BaseAlphabet, MaxEvents) : Balanced(evs) /\ SourcesAscend(evs)}

Span(scope, start, end) == [scope |-> scope, start |-> start, end |-> end]

\* spans that never overlap, sorted in ascending order by their start
SpanLists ==
    {sp \in SeqsUpTo(UNION {{Span(scope, s, e) : e \in s..(MaxPos + 1),
                                                   scope \in {2, 3}} :
                                 s \in 0..(MaxPos + 1)}, MaxSpans) :
        \A n \in 1..(Len(sp) - 1) : sp[n].end <= sp[n + 1].start}

\* no formatter is under construction
FormatterIdle ==
    /\ text = << >>
    /\ config = NoSoftWrap
    /\ annotations = NoAnnotations
    /\ arg_char_idx = None
    /\ current_index = [inline |-> << >>, overlay |-> << >>, line |-> << >>]
    /\ formatter = None
    /\ block_char_idx = 0
    /\ results = << >>
    /\ queries = << >>
    /\ debug_panic = FALSE
    /\ extra_calls = 0

InitOverlay ==
    /\ FormatterIdle
    /\ RegistryIdle
    /\ LaterIdle
    /\ overlay_state = None
    /\ base_events \in BaseStreams
    /\ base_spans \in SpanLists
    /\ emitted = << >>
    /\ overlay_calls = 0

NextOverlay == OverlayNew \/ OverlayNextCall

SpecOverlay == InitOverlay /\ [][NextOverlay]_vars

\* the formatter under every TextFormat of the bounds, with and without
\* annotations
Init ==
    FormatterInit(PlainInputs({NoSoftWrap} \cup AnySoftWrap) \cup InlineInputs
                  \cup OverlayInputs \cup LineInputs({NoSoftWrap} \cup AnySoftWrap))

Next == NewAtPrevBlock \/ NextCall

Spec == Init /\ [][Next]_vars

\* ------------------------------------------------ helix-event/registry.rs
\* the calls the threads make in a run
MaxCalls == 4

\* An event type as the events! macro declares it: its ID is the name of
\* the type and its Static is the type itself, so one TypeId stands for
\* both.  Two declarations (in two modules) may carry the same name.
EventType(id, ty) == [id |-> id, ty |-> ty]

EventTypes ==
    {EventType("Event1", 1), EventType("Event1", 2), EventType("Event2", 3)}

\* ErasedHook: the boxed hook and the function that calls it.  `data` is
\* told apart by the call that registered the hook; `call` is what the hook
\* does when it runs.
ErasedHook(data, dynamic, result, registers) ==
    [data |-> data,
     call |-> [dynamic |-> dynamic, result |-> result, registers |-> registers]]

\* ErasedHook::call: a dynamic hook returns nothing, and res stays Ok(())
HookCall(hook) == IF hook.call.dynamic THEN "Ok" ELSE hook.call.result

\* a registry that puts a new hook in front of the list
PushHookFront(reg, id, hook) ==
    [reg EXCEPT !.handlers[id] = Some(<< hook >> \o Unwrap(reg.handlers[id]))]

\* self.handlers.get_mut(id).unwrap().push(hook)
PushHook(reg, id, hook) ==
    [reg EXCEPT !.handlers[id] = Some(Append(Unwrap(reg.handlers[id]), hook))]

\* a registry that inserts the event and an empty hook list every time
register_eventAlways(reg, E) ==
    [registry |-> [events |-> [reg.events EXCEPT ![E.id] = Some(E.ty)],
                   handlers |-> [reg.handlers EXCEPT ![E.id] = Some(<< >>)]],
     result |-> "Ok"]

\* Registry::register_event
register_event(reg, E) ==
    IF IsSome(reg.events[E.id])
    THEN IF Unwrap(reg.events[E.id]) = E.ty
         THEN [registry |-> reg, result |-> "Ok"]
         ELSE [registry |-> reg, result |-> "Panic"]
    ELSE [registry |-> [events |-> [reg.events EXCEPT ![E.id] = Some(E.ty)],
                        handlers |-> [reg.handlers EXCEPT ![E.id] = Some(<< >>)]],
          result |-> "Ok"]

\* Registry::register_hook, for a hook whose Event is E
register_hook(reg, E, hook) ==
    IF ~IsSome(reg.events[E.id]) THEN [registry |-> reg, result |-> "Panic"]
    ELSE IF E.ty # Unwrap(reg.events[E.id])
         THEN [registry |-> reg, result |-> "Panic"]
    ELSE [registry |-> PushHook(reg, E.id, hook), result |-> "Ok"]

\* a registration that accepts an unknown identifier and drops the callback
register_dynamic_hookLenient(reg, id, hook) ==
    IF ~IsSome(reg.events[id]) THEN [registry |-> reg, result |-> "Ok"]
    ELSE [registry |-> PushHook(reg, id, hook), result |-> "Ok"]

\* Registry::register_dynamic_hook
register_dynamic_hook(reg, id, hook) ==
    IF ~IsSome(reg.events[id]) THEN [registry |-> reg, result |-> "Err"]
    ELSE [registry |-> PushHook(reg, id, hook), result |-> "Ok"]

\* a dispatch that does not compare the type identities
DispatchLookupUnchecked(reg, E) ==
    IF ~IsSome(reg.handlers[E.id]) THEN "Panic" ELSE "Ok"

\* Registry::dispatch up to its loop: the lookup and the assertion
DispatchLookup(reg, E) ==
    IF ~IsSome(reg.handlers[E.id]) THEN "Panic"
    ELSE IF E.ty # Unwrap(reg.events[E.id]) THEN "Panic"
    ELSE "Ok"

\* a loop that a failing hook ends
NextHookIndexAbort(index, result) ==
    IF result = "Err" THEN index + MaxCalls ELSE index + 1

\* Registry::dispatch: the for loop moves on to the next hook whatever the
\* hook returned
NextHookIndex(index, result) == index + 1

\* a lock that lets a writer in while readers hold it
CanWriteAmongReaders == TRUE

\* REGISTRY.write() of with_mut: granted once no thread holds the lock (a
\* write section is one step of the model, so no writer holds it between
\* steps)
CanWrite == readers = {}

\* REGISTRY.read() of with: a parking_lot RwLock makes a new reader wait
\* while a writer is waiting for the lock
CanRead == \A u \in Threads : threads[u].pc # "with_mut"

\* the record of a call that came back
Returned(n, result, before, after) ==
    [call |-> n, result |-> result, before |-> before, after |-> after]

\* with_mut returns (or unwinds) on thread t with outcome r of the method:
\* the write lock is released; a call made from inside a hook goes back to
\* the dispatch that ran the hook, and a panic unwinds that dispatch too
WithMutReturns(t, r) ==
    LET n == threads[t].call
        d == threads[t].dispatch
        back == Returned(n, r.result, registry, r.registry)
    IN /\ registry' = r.registry
       /\ IF d = 0
          THEN /\ returns' = Append(returns, back)
               /\ threads' = [threads EXCEPT ![t] = IdleThread]
               /\ UNCHANGED << readers, invocations >>
          ELSE IF r.result = "Panic"
          THEN /\ returns' = returns \o << back, Returned(d, "Panic", registry, registry) >>
               /\ threads' = [threads EXCEPT ![t] = IdleThread]
               /\ readers' = readers \ {t}
               /\ UNCHANGED invocations
          ELSE /\ returns' = Append(returns, back)
               /\ threads' = [threads EXCEPT ![t] =
                                [pc |-> "dispatch", call |-> d,
                                 index |-> NextHookIndex(threads[t].index, "Ok"),
                                 dispatch |-> 0]]
               /\ invocations' =
                    [k \in DOMAIN invocations |->
                        IF invocations[k].dispatch = d
                        THEN [invocations[k] EXCEPT !.returned = TRUE]
                        ELSE invocations[k]]
               /\ UNCHANGED readers
       /\ UNCHANGED << issued, observed, reported >>
       /\ UNCHANGED fmtVars
       /\ UNCHANGED ovVars
       /\ UNCHANGED laterVars

\* the hook the call n registers
HookOf(n) ==
    ErasedHook(n, issued[n].op = "register_dynamic_hook", issued[n].result,
               issued[n].registers)

\* thread t waits in with_mut to run the method op
InWithMut(t, op) ==
    /\ threads[t].pc = "with_mut"
    /\ issued[threads[t].call].op = op
    /\ CanWrite

\* lib.rs register_event: with_mut(|registry| registry.register_event::<E>())
RegisterEvent ==
    \E t \in Threads :
       /\ InWithMut(t, "register_event")
       /\ WithMutReturns(t, register_event(registry, issued[threads[t].call].e))

\* lib.rs register_hook: with_mut(|registry| registry.register_hook(hook))
RegisterHook ==
    \E t \in Threads :
       /\ InWithMut(t, "register_hook")
       /\ WithMutReturns(t, register_hook(registry, issued[threads[t].call].e,
                                          HookOf(threads[t].call)))

\* lib.rs register_dynamic_hook: with_mut(|reg| reg.register_dynamic_hook(hook, id))
RegisterDynamicHook ==
    \E t \in Threads :
       /\ InWithMut(t, "register_dynamic_hook")
       /\ WithMutReturns(t, register_dynamic_hook(registry,
                                                  issued[threads[t].call].e.id,
                                                  HookOf(threads[t].call)))

\* lib.rs dispatch: with takes the read lock and Registry::dispatch looks
\* the hooks up; a panic unwinds and releases the lock
DispatchBegin ==
    \E t \in Threads :
       /\ threads[t].pc = "with"
       /\ CanRead
       /\ LET n == threads[t].call
              E == issued[n].e
          IN IF DispatchLookup(registry, E) = "Panic"
             THEN /\ returns' = Append(returns,
                                       Returned(n, "Panic", registry, registry))
                  /\ threads' = [threads EXCEPT ![t] = IdleThread]
                  /\ UNCHANGED << readers, observed >>
             ELSE /\ readers' = readers \cup {t}
                  /\ observed' = [observed EXCEPT ![n] =
                                    Some([hooks |-> Unwrap(registry.handlers[E.id]),
                                          at |-> Len(returns)])]
                  /\ threads' = [threads EXCEPT ![t] =
                                   [pc |-> "dispatch", call |-> n, index |-> 1,
                                    dispatch |-> 0]]
                  /\ UNCHANGED returns
       /\ UNCHANGED << registry, issued, invocations, reported >>
       /\ UNCHANGED fmtVars
       /\ UNCHANGED ovVars
       /\ UNCHANGED laterVars

\* Registry::dispatch: one iteration of the for loop.  A hook may call
\* register_hook for its own event from inside run().
DispatchHook ==
    \E t \in Threads :
       /\ threads[t].pc = "dispatch"
       /\ LET d == threads[t].call
              hooks == Unwrap(registry.handlers[issued[d].e.id])
              i == threads[t].index
          IN /\ i <= Len(hooks)
             /\ IF hooks[i].call.registers
                THEN /\ invocations' = Append(invocations,
                                              [dispatch |-> d, hook |-> hooks[i],
                                               returned |-> FALSE])
                     /\ issued' = Append(issued,
                                         [op |-> "register_hook",
                                          e |-> issued[d].e, result |-> "Ok",
                                          registers |-> FALSE, parent |-> d])
                     /\ observed' = Append(observed, None)
                     /\ threads' = [threads EXCEPT ![t] =
                                      [pc |-> "with_mut", call |-> Len(issued) + 1,
                                       index |-> i, dispatch |-> d]]
                     /\ UNCHANGED reported
                ELSE /\ invocations' = Append(invocations,
                                              [dispatch |-> d, hook |-> hooks[i],
                                               returned |-> TRUE])
                     /\ reported' = IF HookCall(hooks[i]) = "Err"
                                    THEN Append(reported,
                                                [dispatch |-> d, hook |-> hooks[i]])
                                    ELSE reported
                     /\ threads' = [threads EXCEPT ![t].index =
                                      NextHookIndex(i, HookCall(hooks[i]))]
                     /\ UNCHANGED << issued, observed >>
       /\ UNCHANGED << registry, readers, returns >>
       /\ UNCHANGED fmtVars
       /\ UNCHANGED ovVars
       /\ UNCHANGED laterVars

\* Registry::dispatch: the loop is over, dispatch returns and with drops
\* the read lock
DispatchReturn ==
    \E t \in Threads :
       /\ threads[t].pc = "dispatch"
       /\ threads[t].index >
             Len(Unwrap(registry.handlers[issued[threads[t].call].e.id]))
       /\ readers' = readers \ {t}
       /\ returns' = Append(returns,
                            Returned(threads[t].call, "Ok", registry, registry))
       /\ threads' = [threads EXCEPT ![t] = IdleThread]
       /\ UNCHANGED << registry, issued, observed, invocations, reported >>
       /\ UNCHANGED fmtVars
       /\ UNCHANGED ovVars
       /\ UNCHANGED laterVars

\* ---------------------------------------------- inputs of the event system
CallInput(op, e, result, registers) ==
    [op |-> op, e |-> e, result |-> result,
     registers |-> registers, parent |-> 0]

\* the calls a thread may make: every public function for every event type,
\* a dynamic hook for every identifier, and for Event1 a hook that fails
\* and a hook that registers another hook while it runs
CallInputs ==
    {CallInput(op, E, "Ok", FALSE) :
        op \in {"register_event", "register_hook", "dispatch"}, E \in EventTypes}
    \cup {CallInput("register_dynamic_hook", EventType(id, 0), "Ok", FALSE) :
             id \in EventIds}
    \cup {CallInput("register_hook", EventType("Event1", 1), "Err", FALSE),
          CallInput("register_hook", EventType("Event1", 1), "Ok", TRUE)}

\* a thread calls register_event, register_hook, register_dynamic_hook or
\* dispatch
Call ==
    \E t \in Threads, c \in CallInputs :
       /\ threads[t].pc = "idle"
       /\ Len(issued) < MaxCalls
       /\ issued' = Append(issued, c)
       /\ observed' = Append(observed, None)
       /\ threads' = [threads EXCEPT ![t] =
                        [pc |-> IF c.op = "dispatch" THEN "with" ELSE "with_mut",
                         call |-> Len(issued) + 1, index |-> 0, dispatch |-> 0]]
       /\ UNCHANGED << registry, readers, returns, invocations, reported >>
       /\ UNCHANGED fmtVars
       /\ UNCHANGED ovVars
       /\ UNCHANGED laterVars

InitRegistry ==
    /\ FormatterIdle
    /\ OverlayIdle
    /\ RegistryIdle
    /\ LaterIdle

NextRegistry ==
    \/ Call
    \/ RegisterEvent
    \/ RegisterHook
    \/ RegisterDynamicHook
    \/ DispatchBegin
    \/ DispatchHook
    \/ DispatchReturn

SpecRegistry == InitRegistry /\ [][NextRegistry]_vars

\* ------------------------------------------------ what the caller observed
Calls == 1..Len(results)

Yielded(i) == IsSome(results[i].item)

Item(i) == Unwrap(results[i].item).grapheme

Pos(i) == Unwrap(results[i].item).pos

\* the end-of-file sentinel, as a caller recognises it
IsSentinel(i) ==
    /\ Yielded(i)
    /\ Item(i).grapheme.kind = "Space"
    /\ Item(i).doc_chars = 0
    /\ Item(i).highlight = None

IsDoc(i) == Yielded(i) /\ Item(i).doc_chars > 0

IsVirtual(i) == Yielded(i) /\ Item(i).highlight # None

\* the clusters of the block: from the block start to the end of the text
FirstTok == TokAt(text, block_char_idx)

\* the document clusters yielded by the calls before call i, in order
DocToksBefore(i) ==
    LET d == SelectSeq([j \in 1..(i - 1) |-> j], LAMBDA j : IsDoc(j))
    IN [k \in 1..Len(d) |-> Item(d[k]).src.tok]

LexLE(p, q) == p.row < q.row \/ (p.row = q.row /\ p.col <= q.col)

\* ------------------------------------------------------------------ C1
\* C1: the formatter yields exactly one end-of-file sentinel (Space,
\* doc_chars = 0, no highlight); it comes after every document grapheme of
\* the block and every yielded inline-annotation grapheme; every call after
\* it returns None, and None is returned only after it.
C1_SentinelOnceThenNone ==
    \A i \in Calls :
        /\ IsSentinel(i) =>
              /\ \A j \in Calls : j > i => ~Yielded(j)
              /\ DocToksBefore(i) = [k \in 1..(Len(text) + 1 - FirstTok) |->
                                        FirstTok + k - 1]
        /\ ~Yielded(i) => \E j \in 1..(i - 1) : IsSentinel(j)

\* ------------------------------------------------------------------ C2
StartsVisualLine(i) ==
    \A j \in 1..(i - 1) : Yielded(j) => Pos(j).row # Pos(i).row

WithinViewport(i) ==
    \/ Pos(i).col <= config.viewport_width
    \/ StartsVisualLine(i) /\ Item(i).grapheme.width > config.viewport_width

\* C2 as claimed: under soft wrap, for every TextFormat, every yielded
\* position has col <= viewport_width unless the grapheme starts a visual
\* line and is itself wider than the viewport.
C2_ColWithinViewportAnyFormat ==
    config.soft_wrap => \A i \in Calls : Yielded(i) => WithinViewport(i)

\* a word was soft-wrapped to an indented line after the previous line filled
C2_Witness ==
    /\ config.soft_wrap /\ WrapFits(config)
    /\ annotations.line_annotations = << >>
    /\ \E i, j \in Calls :
          /\ j < i /\ Yielded(i) /\ Yielded(j)
          /\ Pos(j).row = 0 /\ Pos(j).col = config.viewport_width - 1
          /\ Pos(i).row = 1 /\ Pos(i).col > 0
          /\ \A k \in 1..(i - 1) : Item(k).grapheme.kind # "Newline"

\* C2 amended: the same, for the formats in which a wrapped word fits on the
\* line it is wrapped to (wrap_indent + max_indent_retain + max_wrap <
\* viewport_width).
C2_ColWithinViewport ==
    (config.soft_wrap /\ WrapFits(config)) =>
        \A i \in Calls : Yielded(i) => WithinViewport(i)

\* ------------------------------------------------------------------ C3
\* C3: the positions yielded by successive next() calls are lexicographically
\* non-decreasing by (row, col), and line_pos() read before each call is
\* non-decreasing.
C3_PositionsNonDecreasing ==
    \A i, j \in Calls : i < j =>
        /\ results[i].line_pos <= results[j].line_pos
        /\ (Yielded(i) /\ Yielded(j)) => LexLE(Pos(i), Pos(j))

\* ------------------------------------------------------------------ C4
\* the items yielded directly before call i that came from inline annotations
RECURSIVE VirtualRunBefore(_)
VirtualRunBefore(i) ==
    IF i > 1 /\ IsVirtual(i - 1)
    THEN Append(VirtualRunBefore(i - 1),
                [layer |-> Item(i - 1).src.layer, annot |-> Item(i - 1).src.annot,
                 g |-> Item(i - 1).grapheme.g, doc_chars |-> Item(i - 1).doc_chars])
    ELSE << >>

\* the clusters of the annotations of one slice registered at char index p
RECURSIVE SliceClustersAt(_, _, _, _)
SliceClustersAt(slice, layer, k, p) ==
    IF k > Len(slice) THEN << >>
    ELSE (IF slice[k].char_idx = p
          THEN [j \in 1..Len(slice[k].text) |->
                   [layer |-> layer, annot |-> k, g |-> slice[k].text[j],
                    doc_chars |-> 0]]
          ELSE << >>) \o SliceClustersAt(slice, layer, k + 1, p)

\* the clusters of every inline annotation at p, in layer registration order
RECURSIVE InlineClustersAt(_, _)
InlineClustersAt(l, p) ==
    IF l > Len(annotations.inline_annotations) THEN << >>
    ELSE SliceClustersAt(annotations.inline_annotations[l], l, 1, p)
         \o InlineClustersAt(l + 1, p)

\* the absolute char index of the document cluster (or sentinel) of call i
AnchorOf(i) ==
    IF IsDoc(i) THEN TokStart(text, Item(i).src.tok) ELSE TextLenChars(text)

\* C4: every inline annotation with absolute char_idx a >= block start is
\* yielded, cluster by cluster with doc_chars = 0, immediately before the
\* document grapheme whose absolute char index is a (before the sentinel when
\* a is the document length); annotations sharing a char_idx come in layer
\* registration order.
C4_InlineBeforeAnchor ==
    \A i \in Calls :
        (IsDoc(i) \/ IsSentinel(i)) =>
            VirtualRunBefore(i) = InlineClustersAt(1, AnchorOf(i))

\* ------------------------------------------------------------------ C5
OverlayLayersAt(p) ==
    {l \in 1..Len(annotations.overlays) :
        \E k \in 1..Len(annotations.overlays[l]) :
            annotations.overlays[l][k].char_idx = p}

OverlayIndexAt(l, p) ==
    CHOOSE k \in 1..Len(annotations.overlays[l]) :
        annotations.overlays[l][k].char_idx = p

\* C5: a document grapheme at char index p with overlays at p is yielded as
\* the cluster of the last-registered layer holding one, with the doc_chars of
\* the replaced grapheme, and every layer holding one has its cursor past it;
\* a document grapheme with no overlay at p is yielded unchanged.
C5_OverlaySubstitution ==
    \A i \in Calls :
        IsDoc(i) =>
            LET tok == Item(i).src.tok
                p == TokStart(text, tok)
                ls == OverlayLayersAt(p)
                topmost == CHOOSE l \in ls : \A m \in ls : m <= l
            IN /\ Item(i).doc_chars = LenChars(text[tok])
               /\ ls = {} => Item(i).grapheme.g = text[tok]
               /\ ls # {} =>
                    /\ Item(i).grapheme.g =
                         annotations.overlays[topmost][OverlayIndexAt(topmost, p)].grapheme
                    /\ \A l \in ls : current_index.overlay[l] >= OverlayIndexAt(l, p)

\* ------------------------------------------------------------------ C6
LineEndingsBefore(t, c) ==
    Cardinality({j \in 1..Len(t) : IsLineEnding(t[j]) /\ TokStart(t, j + 1) <= c})

\* b is the start of the line that contains char index c
IsLineStartFor(t, b, c) ==
    /\ b <= c
    /\ b = 0 \/ \E j \in 1..Len(t) : IsLineEnding(t[j]) /\ TokStart(t, j + 1) = b
    /\ ~\E j \in 1..Len(t) :
           IsLineEnding(t[j]) /\ b < TokStart(t, j + 1) /\ TokStart(t, j + 1) <= c

\* the index (0-based) of the first annotation of a slice with char_idx >= k
FirstAtOrAfter(slice, k) ==
    Cardinality({i \in 1..Len(slice) : slice[i].char_idx < k})

Constructed == IsSome(formatter)

FirstYield == CHOOSE i \in Calls : Yielded(i) /\ \A j \in 1..(i - 1) : ~Yielded(j)

FirstDocYield == CHOOSE i \in Calls : IsDoc(i) /\ \A j \in 1..(i - 1) : ~IsDoc(j)

AllLayers ==
    {<< "inline", l >> : l \in 1..Len(annotations.inline_annotations)}
    \cup {<< "overlay", l >> : l \in 1..Len(annotations.overlays)}
    \cup {<< "line", l >> : l \in 1..Len(annotations.line_annotations)}

SliceOf(kl) ==
    IF kl[1] = "inline" THEN annotations.inline_annotations[kl[2]]
    ELSE IF kl[1] = "overlay" THEN annotations.overlays[kl[2]]
    ELSE annotations.line_annotations[kl[2]]

CursorOf(kl) ==
    IF kl[1] = "inline" THEN current_index.inline[kl[2]]
    ELSE IF kl[1] = "overlay" THEN current_index.overlay[kl[2]]
    ELSE current_index.line[kl[2]]

C7_LinePosIsDocumentLine ==
    \A i \in Calls :
        IsDoc(i) =>
            results[i].line_pos =
                Cardinality({j \in 1..(Item(i).src.tok - 1) : IsLineEnding(text[j])})

\* ------------------------------------------------------------------ C8
QueriesOf(kind) == SelectSeq(queries, LAMBDA q : q.kind = kind)

\* C8: every char index the formatter passes to next_inline_annotation_at,
\* overlay_at and annotation_lines_at is >= the k of reset_pos(k) (the block
\* start), and the indices of each kind are non-decreasing.
C8_QueriesAtOrAfterReset ==
    /\ \A n \in 1..Len(queries) : queries[n].char_idx >= block_char_idx
    /\ \A kind \in {"inline", "overlay", "line"} :
          \A n \in 1..(Len(QueriesOf(kind)) - 1) :
              QueriesOf(kind)[n].char_idx <= QueriesOf(kind)[n + 1].char_idx

\* ------------------------------------------------------------------ C9
\* C9: right after reset_pos(k) (here k is the block start, and nothing has
\* been consumed yet) the cursor of every layer is the index of the first
\* annotation with char_idx >= k, the layer length if there is none; with
\* several annotations at k it is on the first of them.
C9_ResetPosFirstAtOrAfter ==
    (Constructed /\ queries = << >>) =>
        \A kl \in AllLayers :
            CursorOf(kl) = FirstAtOrAfter(SliceOf(kl), block_char_idx)

\* ----------------------------------------------------------------- C10
OverlayCalls == 1..Len(emitted)

Event(i) == Unwrap(emitted[i]).event

IsStart(i) == IsSome(emitted[i]) /\ Event(i).type = "HighlightStart"

IsEnd(i) == IsSome(emitted[i]) /\ Event(i).type = "HighlightEnd"

IsInserted(i) == IsSome(emitted[i]) /\ Unwrap(emitted[i]).from = "spans"

OverlayEnded == \E i \in OverlayCalls : emitted[i] = None

StartsIn(n) == Cardinality({i \in 1..n : IsStart(i)})

EndsIn(n) == Cardinality({i \in 1..n : IsEnd(i)})

\* C10: for a balanced base stream and sorted non-overlapping spans, no prefix
\* of the output has more HighlightEnd than HighlightStart events, the whole
\* output has as many of each, and every HighlightStart inserted for a span is
\* followed by one Source event and then by its own HighlightEnd, so that it is
\* closed before the next HighlightStart or HighlightEnd of the base stream.
C10_OutputBalanced ==
    /\ \A n \in OverlayCalls : EndsIn(n) <= StartsIn(n)
    /\ OverlayEnded => EndsIn(Len(emitted)) = StartsIn(Len(emitted))
    /\ \A i \in OverlayCalls :
          (IsStart(i) /\ IsInserted(i)) =>
              /\ i + 1 <= Len(emitted) =>
                    IsSome(emitted[i + 1]) /\ Event(i + 1).type = "Source"
              /\ i + 2 <= Len(emitted) => IsEnd(i + 2) /\ IsInserted(i + 2)

\* a span was overlaid inside a highlighted region of the base stream, and
\* the output has ended
C10_Witness ==
    /\ OverlayEnded
    /\ \E i, j, k \in OverlayCalls :
          /\ i < j /\ j + 2 < k
          /\ IsStart(i) /\ ~IsInserted(i)
          /\ IsStart(j) /\ IsInserted(j)
          /\ IsEnd(k) /\ ~IsInserted(k)

\* ----------------------------------------------------------------- C11
IsSourceOut(i) == IsSome(emitted[i]) /\ Event(i).type = "Source"

\* the char positions of a set of ranges
Covered(ranges) == {x \in 0..(MaxPos + 1) : \E r \in ranges : r.start <= x /\ x < r.end}

BaseRanges == {base_events[n] : n \in {m \in 1..Len(base_events) :
                                          base_events[m].type = "Source"}}

OutRanges == {Event(i) : i \in {j \in OverlayCalls : IsSourceOut(j)}}

\* C11: the Source events of the output are in ascending order and do not
\* overlap, they cover no char position outside the Source ranges of the base
\* stream, and once the output has ended they cover exactly those positions.
C11_SourcesPartitionBase ==
    /\ \A i, j \in OverlayCalls :
          (i < j /\ IsSourceOut(i) /\ IsSourceOut(j)) => Event(i).end <= Event(j).start
    /\ Covered(OutRanges) \subseteq Covered(BaseRanges)
    /\ OverlayEnded => Covered(OutRanges) = Covered(BaseRanges)

\* ----------------------------------------------------------------- C12
\* the Source event at output index i is inside an inserted pair of scope s
InsidePair(i, s) ==
    /\ IsSourceOut(i) /\ i > 1
    /\ IsStart(i - 1) /\ IsInserted(i - 1) /\ Event(i - 1).scope = s

InsideSomePair(i) == \E s \in {2, 3} : InsidePair(i, s)

SpanCovers(x, s) ==
    \E n \in 1..Len(base_spans) :
        /\ base_spans[n].scope = s
        /\ base_spans[n].start <= x /\ x < base_spans[n].end

EmittedAt(i, x) == IsSourceOut(i) /\ Event(i).start <= x /\ x < Event(i).end

\* C12: a char position x covered by a base Source is emitted inside an
\* inserted HighlightStart(S) ... HighlightEnd pair only if a span of scope S
\* covers x, and outside every inserted pair only if no span covers x; once
\* the output has ended x has been emitted, inside a pair of scope S when a
\* span of scope S covers it.
C12_HighlightedIffSpanned ==
    \A x \in Covered(BaseRanges) :
        /\ \A i \in OverlayCalls : \A s \in {2, 3} :
              (EmittedAt(i, x) /\ InsidePair(i, s)) => SpanCovers(x, s)
        /\ \A i \in OverlayCalls :
              (EmittedAt(i, x) /\ ~InsideSomePair(i)) => \A s \in {2, 3} : ~SpanCovers(x, s)
        /\ OverlayEnded => \E i \in OverlayCalls : EmittedAt(i, x)

\* a base Source was cut in three by a span inside it: the output has ended,
\* with a highlighted Source between two that are not highlighted
C12_Witness ==
    /\ OverlayEnded
    /\ \E i \in OverlayCalls :
          /\ InsideSomePair(i)
          /\ \E a, b \in OverlayCalls :
                /\ a < i /\ i < b
                /\ IsSourceOut(a) /\ ~InsideSomePair(a) /\ Event(a).end = Event(i).start
                /\ IsSourceOut(b) /\ ~InsideSomePair(b) /\ Event(b).start = Event(i).end

\* ----------------------------------------------------------------- C13
\* C13: no Source event of the output has start = end; in particular no
\* inserted HighlightStart ... HighlightEnd pair encloses the empty range of
\* a span with start = end.
C13_NoZeroLength ==
    \A i \in OverlayCalls : IsSourceOut(i) => Event(i).start < Event(i).end

\* thread t, inside a call, takes its next step.  The scheduler runs every
\* thread that can run, and the lock wakes a thread that waits for it once
\* it can be granted.
Progress(t) ==
    /\ threads[t].pc # "idle"
    /\ NextRegistry
    /\ threads'[t] # threads[t]

SpecRegistryFair ==
    /\ InitRegistry
    /\ [][NextRegistry]_vars
    /\ \A t \in Threads : WF_vars(Progress(t))

\* ------------------------------- what the callers of the event system saw
\* the entries of returns, and the calls they belong to
Returns == 1..Len(returns)

OpOf(k) == issued[returns[k].call].op

EventOf(k) == issued[returns[k].call].e

\* the dispatches that have taken the read lock and found their hooks
Dispatches == {d \in 1..Len(issued) : IsSome(observed[d])}

DispatchReturned(d) == \E k \in Returns : returns[k].call = d

\* the invocations dispatch d made, in order, and the hooks they ran
Invoked(d) == SelectSeq(invocations, LAMBDA v : v.dispatch = d)

DataOf(invs) == [j \in 1..Len(invs) |-> invs[j].hook.data]

\* the registrations for the event of dispatch d that had returned Ok when
\* d took the lock, in the order they returned
RegisteredBefore(d) ==
    SelectSeq(SubSeq(returns, 1, Unwrap(observed[d]).at),
              LAMBDA r : /\ r.result = "Ok"
                         /\ issued[r.call].op \in {"register_hook",
                                                   "register_dynamic_hook"}
                         /\ issued[r.call].e.id = issued[d].e.id)

CallsOf(rets) == [j \in 1..Len(rets) |-> rets[j].call]

IsPrefix(a, b) == Len(a) <= Len(b) /\ a = SubSeq(b, 1, Len(a))

\* C14: a dispatch invokes exactly the hooks registered for the identifier
\* of its event, each once, in the order they were registered, and every
\* one of them has returned when the dispatch returns; while it runs it has
\* invoked a prefix of them.
C14_DispatchInvokesRegisteredInOrder ==
    \A d \in Dispatches :
       /\ IsPrefix(DataOf(Invoked(d)), CallsOf(RegisteredBefore(d)))
       /\ DispatchReturned(d) =>
             /\ DataOf(Invoked(d)) = CallsOf(RegisteredBefore(d))
             /\ \A j \in 1..Len(Invoked(d)) : Invoked(d)[j].returned

\* a dispatch has returned after it invoked two hooks
C14_Witness ==
    \E d \in Dispatches : DispatchReturned(d) /\ Len(Invoked(d)) >= 2

\* the errors dispatch d reported, in order
ReportedBy(d) == SelectSeq(reported, LAMBDA v : v.dispatch = d)

Failed(d) == SelectSeq(Invoked(d), LAMBDA v : v.returned /\ HookCall(v.hook) = "Err")

\* C15: every hook that returned an error is reported, once and in order,
\* the hooks after it in the list are still invoked in order, and the
\* dispatch returns normally.
C15_ErrorReportedAndIterationContinues ==
    \A d \in Dispatches :
       /\ DataOf(ReportedBy(d)) = DataOf(Failed(d))
       /\ \A k \in Returns :
             returns[k].call = d =>
                /\ returns[k].result = "Ok"
                /\ [j \in 1..Len(Invoked(d)) |-> Invoked(d)[j].hook]
                      = Unwrap(observed[d]).hooks

\* a dispatch has returned whose first hook failed and whose second hook
\* ran after it
C15_Witness ==
    \E d \in Dispatches :
       /\ DispatchReturned(d)
       /\ Len(Invoked(d)) >= 2
       /\ HookCall(Invoked(d)[1].hook) = "Err"
       /\ Len(ReportedBy(d)) >= 1

\* how often dispatch d invoked the hook that call n registered
TimesInvoked(d, n) ==
    Cardinality({j \in 1..Len(invocations) :
                    invocations[j].dispatch = d /\ invocations[j].hook.data = n})

\* the registry after a hook was appended to the list of id and nothing
\* else changed
Appended(before, after, id, n) ==
    /\ after.events = before.events
    /\ \A other \in EventIds \ {id} : after.handlers[other] = before.handlers[other]
    /\ IsSome(after.handlers[id])
    /\ Len(Unwrap(after.handlers[id])) = Len(Unwrap(before.handlers[id])) + 1
    /\ IsPrefix(Unwrap(before.handlers[id]), Unwrap(after.handlers[id]))
    /\ Unwrap(after.handlers[id])[Len(Unwrap(after.handlers[id]))].data = n

\* C16: register_dynamic_hook returns an error and leaves the registry as
\* it was when the identifier is not registered; otherwise it returns Ok and
\* appends the callback to the hooks of that identifier, and every later
\* dispatch of that event invokes the callback once, and no dispatch of
\* another event invokes it.
C16_DynamicHook ==
    \A k \in Returns :
       OpOf(k) = "register_dynamic_hook" =>
          /\ returns[k].result = "Err" <=> ~IsSome(returns[k].before.events[EventOf(k).id])
          /\ returns[k].result = "Err" => returns[k].after = returns[k].before
          /\ returns[k].result = "Ok" =>
                Appended(returns[k].before, returns[k].after, EventOf(k).id,
                         returns[k].call)
          /\ \A d \in Dispatches :
                /\ TimesInvoked(d, returns[k].call) <= 1
                /\ issued[d].e.id # EventOf(k).id => TimesInvoked(d, returns[k].call) = 0
                /\ (/\ DispatchReturned(d)
                    /\ issued[d].e.id = EventOf(k).id
                    /\ returns[k].result = "Ok"
                    /\ k <= Unwrap(observed[d]).at)
                      => TimesInvoked(d, returns[k].call) = 1

\* a callback was registered and a returned dispatch invoked it, and
\* another registration was refused
C16_Witness ==
    /\ \E k \in Returns, d \in Dispatches :
          /\ OpOf(k) = "register_dynamic_hook"
          /\ returns[k].result = "Ok"
          /\ DispatchReturned(d)
          /\ TimesInvoked(d, returns[k].call) = 1
    /\ \E k \in Returns :
          OpOf(k) = "register_dynamic_hook" /\ returns[k].result = "Err"

\* the event type E breaks the contract of the registry reg: its identifier
\* is not registered, or is registered with another type identity
Violates(reg, E) ==
    \/ ~IsSome(reg.events[E.id])
    \/ Unwrap(reg.events[E.id]) # E.ty

\* C19: dispatch and register_hook panic when the identifier of the event
\* is not registered or is registered with a different type identity, and
\* only then; the panicking call invokes no hook and leaves the registry as
\* it was, and the hook it was given is never invoked.
C19_ContractViolationsPanic ==
    \A k \in Returns :
       (OpOf(k) \in {"dispatch", "register_hook"} /\ issued[returns[k].call].parent = 0) =>
          /\ returns[k].result = "Panic" <=> Violates(returns[k].before, EventOf(k))
          /\ returns[k].result = "Panic" =>
                /\ returns[k].after = returns[k].before
                /\ \A j \in 1..Len(invocations) :
                      /\ invocations[j].dispatch # returns[k].call
                      /\ invocations[j].hook.data # returns[k].call

\* a dispatch and a register_hook with a differing type identity have both
\* panicked while a hook was registered for the identifier
C19_Witness ==
    \E k1, k2 \in Returns :
       /\ OpOf(k1) = "dispatch"
       /\ OpOf(k2) = "register_hook"
       /\ returns[k1].result = "Panic"
       /\ returns[k2].result = "Panic"
       /\ IsSome(returns[k1].before.handlers[EventOf(k1).id])
       /\ Len(Unwrap(returns[k1].before.handlers[EventOf(k1).id])) >= 1
       /\ IsSome(returns[k2].before.events[EventOf(k2).id])

\* C20: register_event for an identifier already registered with the same
\* type identity returns without a panic and leaves the registry, the hooks
\* of the identifier and their order included, as it was; with a different
\* type identity it panics; for a new identifier it adds the identifier
\* with no hooks.
C20_RegisterEventAgain ==
    \A k \in Returns :
       OpOf(k) = "register_event" =>
          IF IsSome(returns[k].before.events[EventOf(k).id])
          THEN /\ returns[k].after = returns[k].before
               /\ returns[k].result = "Panic"
                     <=> Unwrap(returns[k].before.events[EventOf(k).id]) # EventOf(k).ty
          ELSE /\ returns[k].result = "Ok"
               /\ returns[k].after.events[EventOf(k).id] = Some(EventOf(k).ty)
               /\ returns[k].after.handlers[EventOf(k).id] = Some(<< >>)

\* an event that has a hook was registered again with the same type
\* identity, and once more with a different one
C20_Witness ==
    \E k1, k2 \in Returns :
       /\ OpOf(k1) = "register_event"
       /\ OpOf(k2) = "register_event"
       /\ returns[k1].result = "Ok"
       /\ IsSome(returns[k1].before.handlers[EventOf(k1).id])
       /\ Len(Unwrap(returns[k1].before.handlers[EventOf(k1).id])) >= 1
       /\ returns[k2].result = "Panic"

\* the hooks dispatch d invoked, in order
HooksOf(invs) == [j \in 1..Len(invs) |-> invs[j].hook]

\* C17: with dispatches and registrations made from several threads, a
\* dispatch invokes the hooks of the list it found under the lock one by
\* one, each exactly once by the time it returns, and while it iterates the
\* list of its event stays as it found it: no registration is applied in
\* between.  Dispatches may hold the lock together.
C17_DispatchSeesOneList ==
    \A d \in Dispatches :
       /\ IsPrefix(HooksOf(Invoked(d)), Unwrap(observed[d]).hooks)
       /\ \A i, j \in 1..Len(Invoked(d)) :
             Invoked(d)[i].hook.data = Invoked(d)[j].hook.data => i = j
       /\ IF DispatchReturned(d)
          THEN HooksOf(Invoked(d)) = Unwrap(observed[d]).hooks
          ELSE Unwrap(registry.handlers[issued[d].e.id]) = Unwrap(observed[d]).hooks

\* two dispatches hold the read lock together and each has invoked a hook
C17_Witness ==
    /\ Cardinality(readers) >= 2
    /\ \A t \in readers :
          /\ threads[t].pc = "dispatch"
          /\ Len(Invoked(threads[t].call)) >= 1

\* C18: a registration call made while a dispatch is in progress, from
\* another thread or from inside a hook that the dispatch is running,
\* eventually returns: no thread waits in with_mut for ever.
C18_RegistrationReturns ==
    \A t \in Threads : []<>(threads[t].pc # "with_mut")

\* ------------------------------------------------ helix-event/debounce.rs
\* the capacity of the channel (mpsc::channel(128) in spawn)
ChannelCap == 2

\* the send_blocking calls of a run
MaxSends == 3

\* the ticks of a run
MaxTime == 4

\* the longest debounce a hook asks for, in ticks
MaxDelay == 2

\* Duration::from_millis(10) of send_blocking, in ticks of 5 ms
SendTimeout == 2

\* rx.recv() polled once: a queued message, None once every Sender is gone
\* and the queue is drained, or nothing yet
Recv(queue, open) ==
    IF queue # << >> THEN "event" ELSE IF ~open THEN "closed" ELSE "pending"

\* tokio::time::timeout_at(deadline_, rx.recv()) polled once: the future is
\* polled before the timer
TimeoutAt(deadline_, queue, open, time) ==
    IF Recv(queue, open) # "pending" THEN Recv(queue, open)
    ELSE IF deadline_ <= time THEN "elapsed"
    ELSE "pending"

\* run: the match on deadline that yields `event`
Awaited(d, queue, open, time) ==
    IF IsSome(d) THEN TimeoutAt(Unwrap(d), queue, open, time)
    ELSE Recv(queue, open)

\* a run that keeps its deadline after finish_debounce
KeepDeadline(d) == d

\* run: deadline = None after finish_debounce
DeadlineAfterFinish(d) == None

\* a run in which None from handle_event leaves the deadline armed
DeadlineUnlessNone(ret, d) == IF ret = None THEN d ELSE ret

\* run: deadline = hook.handle_event(event, deadline)
DeadlineAfterEvent(ret, d) == ret

\* what an implementation of AsyncHook::handle_event may return: no
\* debounce, a new deadline, or the current one
HandleEventReturns(d, time) ==
    {None} \cup {Some(t) : t \in (time + 1)..(time + MaxDelay)}
    \cup (IF IsSome(d) THEN {d} ELSE {})

HookCallRecord(fn, event, timeout, ret) ==
    [fn |-> fn, event |-> event, timeout |-> timeout, ret |-> ret,
     time |-> clock, queued |-> Len(rx)]

\* run: an event was received and is handed to handle_event
RunHandleEvent ==
    /\ run_pc = "running"
    /\ Awaited(deadline, rx, tx_open, clock) = "event"
    /\ \E ret \in HandleEventReturns(deadline, clock) :
          /\ hook_calls' = Append(hook_calls,
                                  HookCallRecord("handle_event", Head(rx),
                                                 deadline, ret))
          /\ deadline' = DeadlineAfterEvent(ret, deadline)
    /\ rx' = Tail(rx)
    /\ UNCHANGED << tx_open, run_pc, sender, clock, accepted, send_returns >>
    /\ UNCHANGED << fmtVars, ovVars, regVars, otherThanHook >>

\* run: the deadline elapsed before an event came
RunFinishDebounce ==
    /\ run_pc = "running"
    /\ Awaited(deadline, rx, tx_open, clock) = "elapsed"
    /\ hook_calls' = Append(hook_calls,
                            HookCallRecord("finish_debounce", 0, deadline, None))
    /\ deadline' = DeadlineAfterFinish(deadline)
    /\ UNCHANGED << rx, tx_open, run_pc, sender, clock, accepted, send_returns >>
    /\ UNCHANGED << fmtVars, ovVars, regVars, otherThanHook >>

\* run: recv returned None, the loop breaks and run returns
RunExit ==
    /\ run_pc = "running"
    /\ Awaited(deadline, rx, tx_open, clock) = "closed"
    /\ run_pc' = "exited"
    /\ hook_calls' = Append(hook_calls, HookCallRecord("return", 0, deadline, None))
    /\ UNCHANGED << deadline, rx, tx_open, sender, clock, accepted, send_returns >>
    /\ UNCHANGED << fmtVars, ovVars, regVars, otherThanHook >>

\* tx.try_send(data)
try_send(queue, receiving) ==
    IF ~receiving THEN "Closed"
    ELSE IF Len(queue) >= ChannelCap THEN "Full"
    ELSE "Ok"

SendReturn(data, result) ==
    [data |-> data, result |-> result, waited |-> clock - sender.since]

\* the send_blocking calls made so far
Sends == Len(send_returns) + (IF sender.pc = "send_timeout" THEN 1 ELSE 0)

\* send_blocking: try_send, and on Full the start of send_timeout
SendBlocking ==
    /\ sender.pc = "idle"
    /\ tx_open
    /\ Sends < MaxSends
    /\ LET data == Sends + 1
           res == try_send(rx, run_pc = "running")
       IN IF res = "Ok"
          THEN /\ rx' = Append(rx, data)
               /\ accepted' = Append(accepted, data)
               /\ send_returns' = Append(send_returns,
                                         [data |-> data, result |-> "sent", waited |-> 0])
               /\ UNCHANGED sender
          ELSE IF res = "Full"
          THEN /\ sender' = [pc |-> "send_timeout", data |-> data, since |-> clock]
               /\ UNCHANGED << rx, accepted, send_returns >>
          ELSE /\ send_returns' = Append(send_returns,
                                         [data |-> data, result |-> "dropped", waited |-> 0])
               /\ UNCHANGED << rx, accepted, sender >>
    /\ UNCHANGED << deadline, tx_open, run_pc, clock, hook_calls >>
    /\ UNCHANGED << fmtVars, ovVars, regVars, otherThanHook >>

\* send_blocking: send_timeout got room in the channel (the send is polled
\* before the timer) and send_blocking returns
SendTimeoutSent ==
    /\ sender.pc = "send_timeout"
    /\ try_send(rx, run_pc = "running") = "Ok"
    /\ rx' = Append(rx, sender.data)
    /\ accepted' = Append(accepted, sender.data)
    /\ send_returns' = Append(send_returns, SendReturn(sender.data, "sent"))
    /\ sender' = IdleSender
    /\ UNCHANGED << deadline, tx_open, run_pc, clock, hook_calls >>
    /\ UNCHANGED << fmtVars, ovVars, regVars, otherThanHook >>

\* what .unwrap() makes of the Result of send_timeout
UnwrapSendTimeout(result) == IF result = "Ok" THEN "sent" ELSE "panic"

\* send_blocking: the 10 ms passed with the channel still full, or the
\* receiver is gone: send_timeout returns Err and the Result is unwrapped
SendTimeoutFailed ==
    /\ sender.pc = "send_timeout"
    /\ \/ try_send(rx, run_pc = "running") = "Closed"
       \/ /\ try_send(rx, run_pc = "running") = "Full"
          /\ clock - sender.since >= SendTimeout
    /\ send_returns' = Append(send_returns,
                              SendReturn(sender.data, UnwrapSendTimeout("Err")))
    /\ sender' = [sender EXCEPT !.pc = "panicked"]
    /\ UNCHANGED << deadline, rx, tx_open, run_pc, clock, hook_calls, accepted >>
    /\ UNCHANGED << fmtVars, ovVars, regVars, otherThanHook >>

\* every Sender of the channel is dropped
DropSenders ==
    /\ tx_open
    /\ sender.pc # "send_timeout"
    /\ tx_open' = FALSE
    /\ UNCHANGED << deadline, rx, run_pc, sender, clock, hook_calls, accepted,
                    send_returns >>
    /\ UNCHANGED << fmtVars, ovVars, regVars, otherThanHook >>

\* 5 ms pass
Tick ==
    /\ clock < MaxTime
    /\ clock' = clock + 1
    /\ UNCHANGED << deadline, rx, tx_open, run_pc, sender, hook_calls, accepted,
                    send_returns >>
    /\ UNCHANGED << fmtVars, ovVars, regVars, otherThanHook >>

\* AsyncHook::spawn has returned: the channel is empty, run is about to
\* start with deadline = None
InitHook ==
    /\ FormatterIdle
    /\ OverlayIdle
    /\ RegistryIdle
    /\ DifferIdle
    /\ UiIdle
    /\ deadline = None
    /\ rx = << >>
    /\ tx_open = TRUE
    /\ run_pc = "running"
    /\ sender = IdleSender
    /\ clock = 0
    /\ hook_calls = << >>
    /\ accepted = << >>
    /\ send_returns = << >>

NextHook ==
    \/ RunHandleEvent
    \/ RunFinishDebounce
    \/ RunExit
    \/ SendBlocking
    \/ SendTimeoutSent
    \/ SendTimeoutFailed
    \/ DropSenders
    \/ Tick

SpecHook == InitHook /\ [][NextHook]_vars

\* --------------------------------------- what the hook and the senders saw
HookCalls == 1..Len(hook_calls)

IsHandleEvent(k) == hook_calls[k].fn = "handle_event"

IsFinishDebounce(k) == hook_calls[k].fn = "finish_debounce"

\* the deadline that is pending after the first k calls
PendingAfter(k) ==
    IF k = 0 THEN None
    ELSE IF IsHandleEvent(k) THEN hook_calls[k].ret
    ELSE IF IsFinishDebounce(k) THEN None
    ELSE hook_calls[k].timeout

\* C21: finish_debounce is called only when a deadline is pending that has
\* expired and no event is queued; the call before it is the handle_event
\* that armed this deadline, so it is called at most once per armed deadline;
\* after it no deadline is pending until a handle_event returns one.
C21_FinishDebounceOncePerDeadline ==
    /\ \A k \in HookCalls :
          IsFinishDebounce(k) =>
             /\ IsSome(hook_calls[k].timeout)
             /\ Unwrap(hook_calls[k].timeout) <= hook_calls[k].time
             /\ hook_calls[k].queued = 0
             /\ k > 1
             /\ IsHandleEvent(k - 1)
             /\ hook_calls[k - 1].ret = hook_calls[k].timeout
    /\ (hook_calls # << >> /\ IsFinishDebounce(Len(hook_calls))) => deadline = None

\* two debounces have run to their end, one after the other
C21_Witness ==
    \E j, k \in HookCalls : j < k /\ IsFinishDebounce(j) /\ IsFinishDebounce(k)

\* the events handed to handle_event, in order
Handled == SelectSeq(hook_calls, LAMBDA c : c.fn = "handle_event")

EventsOf(cs) == [j \in 1..Len(cs) |-> cs[j].event]

\* C22: the events handed to handle_event are the accepted messages, in the
\* order sent and each once (all of them once run has returned); every call
\* gets the deadline pending at that moment, and what it returns is the
\* pending deadline afterwards; run returns only when the channel is closed
\* and drained, and calls nothing after it.
C22_EveryEventHandledInOrder ==
    /\ EventsOf(Handled) \o rx = accepted
    /\ \A k \in HookCalls :
          /\ hook_calls[k].timeout = PendingAfter(k - 1)
          /\ hook_calls[k].fn = "return" =>
                /\ k = Len(hook_calls)
                /\ hook_calls[k].queued = 0
    /\ deadline = PendingAfter(Len(hook_calls))
    /\ run_pc = "exited" =>
          /\ ~tx_open
          /\ rx = << >>
          /\ hook_calls # << >>
          /\ hook_calls[Len(hook_calls)].fn = "return"

\* run has returned after two events, of which one cancelled a pending
\* debounce
C22_Witness ==
    /\ run_pc = "exited"
    /\ Len(Handled) >= 2
    /\ \E k \in HookCalls :
          IsHandleEvent(k) /\ IsSome(hook_calls[k].timeout) /\ hook_calls[k].ret = None

\* C23: send_blocking never panics; a message is dropped only when the
\* channel was closed or stayed full for the whole timeout.
C23_SendBlockingNeverFails ==
    \A k \in 1..Len(send_returns) :
       /\ send_returns[k].result \in {"sent", "dropped"}
       /\ send_returns[k].result = "sent" =>
             \E j \in 1..Len(accepted) : accepted[j] = send_returns[k].data

\* ---------------------------------------------------- helix-vcs/differ.rs
\* the update_document and update_diff_base calls of a run
MaxUpdates == 3

\* DIFF_DEBOUNCE, in ticks of 10 ms
DIFF_DEBOUNCE == 1

\* DIFF_MAX_DEBOUNCE, in ticks; 2 ticks stand for the 200 ms
DIFF_MAX_DEBOUNCE == 2

\* MAX_DIFF_LEN, in lines; 2 lines stand for the 40000
MAX_DIFF_LEN == 2

\* the ropes of the bounds, as lists of lines; the last has more than
\* MAX_DIFF_LEN lines
Ropes == {<< "a" >>, << "b", "b" >>, << "a", "b", "b" >>}

Min2(a, b) == IF a <= b THEN a ELSE b

\* the number of leading lines two ropes share
RECURSIVE CommonPrefix(_, _)
CommonPrefix(a, b) ==
    IF a = << >> \/ b = << >> \/ Head(a) # Head(b) THEN 0
    ELSE 1 + CommonPrefix(Tail(a), Tail(b))

Reverse(a) == [i \in 1..Len(a) |-> a[Len(a) + 1 - i]]

\* perform_diff after the length check: the ops of capture_diff_slices as
\* the for loop turns them into (line, LineDiff) insertions, in order.  The
\* lines two ropes share at both ends are Equal; what is left is one
\* Insert, one Delete or one Replace.
DiffInsertions(diff_base, doc) ==
    LET pre == CommonPrefix(diff_base, doc)
        old_rest == SubSeq(diff_base, pre + 1, Len(diff_base))
        new_rest == SubSeq(doc, pre + 1, Len(doc))
        post == CommonPrefix(Reverse(old_rest), Reverse(new_rest))
        old_len == Len(old_rest) - post
        new_len == Len(new_rest) - post
    IN IF old_len = 0 /\ new_len = 0 THEN << >>
       ELSE IF new_len = 0 THEN << << pre, "Deleted" >> >>
       ELSE [i \in 1..new_len |->
                << pre + i - 1, IF old_len = 0 THEN "Added" ELSE "Modified" >>]

\* the map that holds the insertions
AsMap(insertions) == {insertions[i] : i \in 1..Len(insertions)}

\* perform_diff: diff_base.len() > MAX_DIFF_LEN || doc.len() > MAX_DIFF_LEN
TooLong(diff_base, doc) ==
    Len(diff_base) > MAX_DIFF_LEN \/ Len(doc) > MAX_DIFF_LEN

\* a LineDiffs allocation: its entries and, for the observer, what it is
LineDiffsMap(content, kind, diff_base, doc) ==
    [content |-> content, kind |-> kind, diff_base |-> diff_base, doc |-> doc]

EmptyMap(kind) == LineDiffsMap({}, kind, << >>, << >>)

\* the addresses the allocations can have
Addresses == 1..3

\* Arc::try_unwrap(old_line_diff).is_ok(): no reader holds the old snapshot
UniquelyOwned(old) == ~(IsSome(guard) /\ Unwrap(guard).address = old)

\* an accumulator that keeps the first rope of each kind
handle_eventFirst(acc, event) ==
    IF event.kind = "UpdateDocument"
    THEN (IF IsSome(acc.doc) THEN acc ELSE [acc EXCEPT !.doc = Some(event.rope)])
    ELSE (IF IsSome(acc.diff_base) THEN acc
          ELSE [acc EXCEPT !.diff_base = Some(event.rope)])

\* EventAccumulator::handle_event
handle_event(acc, event) ==
    IF event.kind = "UpdateDocument" THEN [acc EXCEPT !.doc = Some(event.rope)]
    ELSE [acc EXCEPT !.diff_base = Some(event.rope)]

\* EventAccumulator::new
NewAccumulator == [diff_base |-> None, doc |-> None]

\* accumualte_debounced_events: the deadline of the next receive, as the
\* ticks left until it
NextDebounce(final_time) == Min2(DIFF_DEBOUNCE, final_time)

\* the observer's record after the worker received an event
Consume(seen, event) ==
    IF event.kind = "UpdateDocument"
    THEN [seen EXCEPT !.doc = event.rope, !.events = @ + 1]
    ELSE [seen EXCEPT !.diff_base = event.rope, !.events = @ + 1]

\* Differ::update_document and Differ::update_diff_base
UpdateEvent(kind, rope) == [kind |-> kind, rope |-> rope]

Update ==
    \E kind \in {"UpdateDocument", "UpdateDiffBase"}, rope \in Ropes :
       /\ differ_alive
       /\ updates < MaxUpdates
       /\ updates' = updates + 1
       /\ IF worker.pc = "exited"
          THEN UNCHANGED << channel, last_sent >>
          ELSE /\ channel' = Append(channel, UpdateEvent(kind, rope))
               /\ last_sent' = IF kind = "UpdateDocument"
                               THEN [last_sent EXCEPT !.doc = rope]
                               ELSE [last_sent EXCEPT !.diff_base = rope]
       /\ UNCHANGED << differ_alive, worker, maps, line_diffs, guard, consumed,
                       publications, receives >>
       /\ UNCHANGED << fmtVars, ovVars, regVars, otherThanDiffer >>

\* Differ::get_line_diffs: a reader loads the snapshot and keeps the guard
GetLineDiffs ==
    /\ differ_alive
    /\ guard = None
    /\ guard' = Some([address |-> line_diffs, seen |-> maps[line_diffs]])
    /\ UNCHANGED << channel, differ_alive, worker, maps, line_diffs, last_sent,
                    updates, consumed, publications, receives >>
    /\ UNCHANGED << fmtVars, ovVars, regVars, otherThanDiffer >>

\* the reader drops the guard
DropGuard ==
    /\ IsSome(guard)
    /\ guard' = None
    /\ UNCHANGED << channel, differ_alive, worker, maps, line_diffs, last_sent,
                    updates, consumed, publications, receives >>
    /\ UNCHANGED << fmtVars, ovVars, regVars, otherThanDiffer >>

\* every Differ is dropped: the channel closes
DropDiffer ==
    /\ differ_alive
    /\ guard = None
    /\ differ_alive' = FALSE
    /\ UNCHANGED << channel, worker, maps, line_diffs, guard, last_sent,
                    updates, consumed, publications, receives >>
    /\ UNCHANGED << fmtVars, ovVars, regVars, otherThanDiffer >>

\* DiffWorker::perform_diff up to its for loop
PerformDiff ==
    /\ worker.pc = "perform_diff"
    /\ worker' = [worker EXCEPT
                    !.pc = "add_line_diff",
                    !.skipped = TooLong(worker.diff_base, worker.doc),
                    !.pending = IF TooLong(worker.diff_base, worker.doc) THEN << >>
                                ELSE DiffInsertions(worker.diff_base, worker.doc)]
    /\ UNCHANGED << channel, differ_alive, maps, line_diffs, guard, last_sent,
                    updates, consumed, publications, receives >>
    /\ UNCHANGED << fmtVars, ovVars, regVars, otherThanDiffer >>

\* DiffWorker::add_line_diff, once per insertion of the for loop
AddLineDiff ==
    /\ worker.pc = "add_line_diff"
    /\ worker.pending # << >>
    /\ maps' = [maps EXCEPT ![worker.new_line_diffs].content =
                               @ \cup {Head(worker.pending)}]
    /\ worker' = [worker EXCEPT !.pending = Tail(worker.pending)]
    /\ UNCHANGED << channel, differ_alive, line_diffs, guard, last_sent,
                    updates, consumed, publications, receives >>
    /\ UNCHANGED << fmtVars, ovVars, regVars, otherThanDiffer >>

\* DiffWorker::apply_line_diff
ApplyLineDiff ==
    /\ worker.pc = "add_line_diff"
    /\ worker.pending = << >>
    /\ LET new == worker.new_line_diffs
           old == line_diffs
           applied == [maps[new] EXCEPT
                         !.kind = IF worker.skipped THEN "skipped" ELSE "computed",
                         !.diff_base = worker.diff_base,
                         !.doc = worker.doc]
           spare == CHOOSE a \in Addresses : a # new /\ a # old
           next == IF UniquelyOwned(old) THEN old ELSE spare
       IN /\ line_diffs' = new
          /\ maps' = [maps EXCEPT ![new] = applied, ![next] = EmptyMap("building")]
          /\ worker' = [worker EXCEPT !.pc = "recv", !.new_line_diffs = next,
                                      !.round = worker.round + 1]
          /\ publications' = Some([round |-> worker.round,
                                   skipped |-> worker.skipped,
                                   content |-> applied.content,
                                   previous |-> maps[old].content,
                                   diff_base |-> worker.diff_base,
                                   doc |-> worker.doc,
                                   consumed |-> consumed])
    /\ UNCHANGED << channel, differ_alive, guard, last_sent, updates, consumed,
                    receives >>
    /\ UNCHANGED << fmtVars, ovVars, regVars, otherThanDiffer >>

\* DiffWorker::run: channel.recv() returned an event; a burst begins
RecvEvent ==
    /\ worker.pc = "recv"
    /\ channel # << >>
    /\ worker' = [worker EXCEPT
                    !.pc = "debounce",
                    !.accumulator = handle_event(NewAccumulator, Head(channel)),
                    !.final_time = DIFF_MAX_DEBOUNCE,
                    !.debounce = NextDebounce(DIFF_MAX_DEBOUNCE)]
    /\ channel' = Tail(channel)
    /\ consumed' = [Consume(consumed, Head(channel)) EXCEPT !.bursts = @ + 1]
    /\ UNCHANGED << differ_alive, maps, line_diffs, guard, last_sent, updates,
                    publications, receives >>
    /\ UNCHANGED << fmtVars, ovVars, regVars, otherThanDiffer >>

\* DiffWorker::run: channel.recv() returned None and run returns
WorkerExit ==
    /\ worker.pc = "recv"
    /\ channel = << >>
    /\ ~differ_alive
    /\ worker' = [worker EXCEPT !.pc = "exited"]
    /\ UNCHANGED << channel, differ_alive, maps, line_diffs, guard, last_sent,
                    updates, consumed, publications, receives >>
    /\ UNCHANGED << fmtVars, ovVars, regVars, otherThanDiffer >>

\* a receive of the debounce loop
ReceiveRecord(outcome) ==
    [round |-> worker.round, outcome |-> outcome, debounce |-> worker.debounce,
     final_time |-> worker.final_time]

\* accumualte_debounced_events: timeout_at(debounce, channel.recv()) gave
\* an event (recv is polled before the timer)
DebounceEvent ==
    /\ worker.pc = "debounce"
    /\ channel # << >>
    /\ worker' = [worker EXCEPT
                    !.accumulator = handle_event(worker.accumulator, Head(channel)),
                    !.debounce = NextDebounce(worker.final_time)]
    /\ channel' = Tail(channel)
    /\ consumed' = Consume(consumed, Head(channel))
    /\ receives' = Some(ReceiveRecord("event"))
    /\ UNCHANGED << differ_alive, maps, line_diffs, guard, last_sent, updates,
                    publications >>
    /\ UNCHANGED << fmtVars, ovVars, regVars, otherThanDiffer >>

\* accumualte_debounced_events: the receive timed out or the channel is
\* closed; the loop breaks and run updates its ropes
DebounceEnd ==
    /\ worker.pc = "debounce"
    /\ channel = << >>
    /\ worker.debounce = 0 \/ ~differ_alive
    /\ worker' = [worker EXCEPT
                    !.pc = "perform_diff",
                    !.doc = IF IsSome(worker.accumulator.doc)
                            THEN Unwrap(worker.accumulator.doc) ELSE @,
                    !.diff_base = IF IsSome(worker.accumulator.diff_base)
                                  THEN Unwrap(worker.accumulator.diff_base) ELSE @]
    /\ receives' = Some(ReceiveRecord(IF differ_alive THEN "timeout" ELSE "closed"))
    /\ UNCHANGED << channel, differ_alive, maps, line_diffs, guard, last_sent,
                    updates, consumed, publications >>
    /\ UNCHANGED << fmtVars, ovVars, regVars, otherThanDiffer >>

\* 10 ms pass while the worker waits in the debounce loop
DebounceTick ==
    /\ worker.pc = "debounce"
    /\ worker.debounce > 0
    /\ worker' = [worker EXCEPT !.debounce = @ - 1,
                                !.final_time = IF @ > 0 THEN @ - 1 ELSE 0]
    /\ UNCHANGED << channel, differ_alive, maps, line_diffs, guard, last_sent,
                    updates, consumed, publications, receives >>
    /\ UNCHANGED << fmtVars, ovVars, regVars, otherThanDiffer >>

\* Differ::new has returned: the snapshot is the default map, the worker is
\* spawned and about to diff the ropes it was given
InitDiffer ==
    /\ FormatterIdle
    /\ OverlayIdle
    /\ RegistryIdle
    /\ HookIdle
    /\ UiIdle
    /\ channel = << >>
    /\ differ_alive = TRUE
    /\ \E diff_base \in Ropes, doc \in Ropes :
          /\ worker = [pc |-> "perform_diff", diff_base |-> diff_base, doc |-> doc,
                       accumulator |-> NewAccumulator, debounce |-> 0,
                       final_time |-> 0, pending |-> << >>, skipped |-> FALSE,
                       new_line_diffs |-> 2, round |-> 0]
          /\ last_sent = [diff_base |-> diff_base, doc |-> doc]
          /\ consumed = [diff_base |-> diff_base, doc |-> doc, events |-> 0,
                         bursts |-> 0]
    /\ maps = [a \in Addresses |->
                 IF a = 1 THEN EmptyMap("initial") ELSE EmptyMap("building")]
    /\ line_diffs = 1
    /\ guard = None
    /\ updates = 0
    /\ publications = None
    /\ receives = None

NextDiffer ==
    \/ Update
    \/ GetLineDiffs
    \/ DropGuard
    \/ DropDiffer
    \/ PerformDiff
    \/ AddLineDiff
    \/ ApplyLineDiff
    \/ RecvEvent
    \/ WorkerExit
    \/ DebounceEvent
    \/ DebounceEnd
    \/ DebounceTick

SpecDiffer == InitDiffer /\ [][NextDiffer]_vars

\* the steps of the worker task and of the time it waits for.  The runtime
\* polls a task that can run, and time passes.
WorkerStep ==
    \/ PerformDiff
    \/ AddLineDiff
    \/ ApplyLineDiff
    \/ RecvEvent
    \/ WorkerExit
    \/ DebounceEvent
    \/ DebounceEnd
    \/ DebounceTick

SpecDifferFair == InitDiffer /\ [][NextDiffer]_vars /\ WF_vars(WorkerStep)

\* ------------------------------------------ what the users of a Differ saw
\* the line diff between two ropes
LineDiffBetween(diff_base, doc) == AsMap(DiffInsertions(diff_base, doc))

\* the snapshot is the line diff between the newest diff base and the
\* newest document, and the worker has returned if the channel is closed
Converged ==
    /\ maps[line_diffs].content = LineDiffBetween(last_sent.diff_base, last_sent.doc)
    /\ ~differ_alive => worker.pc = "exited"

\* every publication diffs the newest ropes the worker had received, a burst
\* ends in exactly one publication, and the worker returns only when the
\* channel is closed and empty and every update was taken in
BurstsCoalesce ==
    /\ IsSome(publications) =>
          /\ Unwrap(publications).diff_base = Unwrap(publications).consumed.diff_base
          /\ Unwrap(publications).doc = Unwrap(publications).consumed.doc
          /\ ~Unwrap(publications).skipped =>
                Unwrap(publications).content
                   = LineDiffBetween(Unwrap(publications).diff_base,
                                     Unwrap(publications).doc)
    /\ worker.pc \in {"recv", "exited"} => worker.round = consumed.bursts + 1
    /\ worker.pc = "exited" =>
          /\ channel = << >>
          /\ ~differ_alive
          /\ consumed.diff_base = last_sent.diff_base
          /\ consumed.doc = last_sent.doc

\* C24 as claimed: after the last update the worker eventually publishes
\* the line diff between the newest diff base and the newest document,
\* whatever their lengths; a burst takes the last rope of each kind and
\* publishes once; no update is lost and the worker returns once the channel
\* is closed and drained.
C24_ConvergesAsClaimed == []BurstsCoalesce /\ <>[]Converged

\* C24: as above, for a newest diff base and a newest document of at most
\* MAX_DIFF_LEN lines each.
C24_Converges ==
    /\ []BurstsCoalesce
    /\ <>[](/\ ~TooLong(last_sent.diff_base, last_sent.doc) =>
                  maps[line_diffs].content
                     = LineDiffBetween(last_sent.diff_base, last_sent.doc)
            /\ ~differ_alive => worker.pc = "exited")

\* one burst of three events has been published, and the snapshot is the
\* non-empty line diff of the newest ropes
C24_Witness ==
    /\ worker.pc = "recv"
    /\ consumed.events = 3
    /\ consumed.bursts = 1
    /\ channel = << >>
    /\ maps[line_diffs].content # {}
    /\ maps[line_diffs].content = LineDiffBetween(last_sent.diff_base, last_sent.doc)

\* C25: the map a reader holds is the initial empty map or the complete
\* result of one finished diff computation, and it is as the reader found
\* it for as long as the reader holds it.
C25_ReadersSeeCompleteMaps ==
    IsSome(guard) =>
       /\ maps[Unwrap(guard).address] = Unwrap(guard).seen
       /\ Unwrap(guard).seen.kind \in {"initial", "computed"}
       /\ Unwrap(guard).seen.kind = "initial" => Unwrap(guard).seen.content = {}
       /\ Unwrap(guard).seen.kind = "computed" =>
             Unwrap(guard).seen.content
                = LineDiffBetween(Unwrap(guard).seen.diff_base, Unwrap(guard).seen.doc)

\* C26: a round whose diff was skipped leaves the snapshot with the
\* contents it had before the round.
C26_SkippedRoundKeepsSnapshot ==
    (IsSome(publications) /\ Unwrap(publications).skipped) =>
       Unwrap(publications).content = Unwrap(publications).previous

\* C27: every receive of the debounce loop waits at most DIFF_DEBOUNCE and
\* never beyond DIFF_MAX_DEBOUNCE after the first event; the loop ends with
\* the first receive that times out; and no event is taken into the round
\* once DIFF_MAX_DEBOUNCE has passed since its first event.
C27_DebounceIsBounded ==
    /\ worker.pc = "debounce" =>
          /\ worker.debounce <= DIFF_DEBOUNCE
          /\ worker.debounce <= worker.final_time
    /\ IsSome(receives) =>
          /\ (Unwrap(receives).outcome # "event" /\ Unwrap(receives).round = worker.round)
                => worker.pc # "debounce"
          /\ Unwrap(receives).outcome = "event" => Unwrap(receives).final_time > 0

\* ---------------------------------------------- helix-term/ui/document.rs
\* the decorations added to one DecorationManager
MaxDecorations == 2

\* the register_positon calls on one DecorationManager
MaxHooks == 3

\* the char indices of the rendered text are 0..MaxChar
MaxChar == 2

\* the decorate_position calls of one render pass
MaxPositions == 3

\* an entry of position_hooks: (usize, DecorationRenderIdx)
PositionHook(char_idx, decoration) == [char_idx |-> char_idx, decoration |-> decoration]

\* the derived Ord of (usize, DecorationRenderIdx)
HookLess(a, b) ==
    \/ a.char_idx < b.char_idx
    \/ a.char_idx = b.char_idx /\ a.decoration < b.decoration

\* position_hooks.sort_unstable(): entries that compare equal are identical,
\* so the result is the one ascending arrangement
RECURSIVE sort_unstable(_)
sort_unstable(hooks) ==
    IF hooks = << >> THEN << >>
    ELSE LET rest == sort_unstable(Tail(hooks))
         IN SelectSeq(rest, LAMBDA x : HookLess(x, Head(hooks)))
               \o << Head(hooks) >>
               \o SelectSeq(rest, LAMBDA x : ~HookLess(x, Head(hooks)))

\* binary_search_by_key(&first_visible_char, |&(char_pos, _)| char_pos)
\*     .unwrap_or_else(identity)
SearchHooks(hooks, first_visible_char) ==
    BinarySearchOutcomes([i \in 1..Len(hooks) |-> hooks[i].char_idx], first_visible_char)

\* the loop of decorate_position: current_idx after it
RECURSIVE DecoratePositionLoop(_, _, _)
DecoratePositionLoop(hooks, idx, char_idx) ==
    IF idx >= Len(hooks) THEN idx
    ELSE IF hooks[idx + 1].char_idx > char_idx THEN idx
    ELSE DecoratePositionLoop(hooks, idx + 1, char_idx)

\* an invocation of Decoration::decorate_position, and the number of the
\* DecorationManager::decorate_position call that made it
Decorated(call, hook) ==
    [call |-> call, char_idx |-> hook.char_idx, decoration |-> hook.decoration]

\* DecorationManager::add_decoration
AddDecoration ==
    /\ ~rendering.prepared
    /\ decorations < MaxDecorations
    /\ decorations' = decorations + 1
    /\ UNCHANGED << position_hooks, current_idx, registered, rendering, decorated >>
    /\ UNCHANGED << fmtVars, ovVars, regVars, hookVars, diffVars, otherThanDecorations >>

\* DecorationManager::register_positon
RegisterPositon ==
    /\ ~rendering.prepared
    /\ Len(position_hooks) < MaxHooks
    /\ \E decoration \in 0..(decorations - 1), char_idx \in 0..MaxChar :
          /\ position_hooks' = Append(position_hooks, PositionHook(char_idx, decoration))
          /\ registered' = Append(registered, PositionHook(char_idx, decoration))
    /\ UNCHANGED << current_idx, decorations, rendering, decorated >>
    /\ UNCHANGED << fmtVars, ovVars, regVars, hookVars, diffVars, otherThanDecorations >>

\* DecorationManager::prepare_for_rendering
PrepareForRendering ==
    /\ ~rendering.prepared
    /\ \E first_visible_char \in 0..MaxChar :
          /\ position_hooks' = sort_unstable(position_hooks)
          /\ current_idx' \in SearchHooks(position_hooks', first_visible_char)
          /\ rendering' = [prepared |-> TRUE,
                           first_visible_char |-> first_visible_char,
                           positions |-> << >>]
    /\ UNCHANGED << decorations, registered, decorated >>
    /\ UNCHANGED << fmtVars, ovVars, regVars, hookVars, diffVars, otherThanDecorations >>

\* DecorationManager::decorate_position, for char indices that do not
\* decrease within the render pass
DecoratePosition ==
    /\ rendering.prepared
    /\ Len(rendering.positions) < MaxPositions
    /\ \E char_idx \in 0..MaxChar :
          /\ \A k \in 1..Len(rendering.positions) : rendering.positions[k] <= char_idx
          /\ current_idx' = DecoratePositionLoop(position_hooks, current_idx, char_idx)
          /\ decorated' =
                decorated \o
                   SelectSeq([i \in 1..(current_idx' - current_idx) |->
                                 Decorated(Len(rendering.positions) + 1,
                                           position_hooks[current_idx + i])],
                             LAMBDA d : d.char_idx = char_idx)
          /\ rendering' = [rendering EXCEPT !.positions = Append(@, char_idx)]
    /\ UNCHANGED << position_hooks, decorations, registered >>
    /\ UNCHANGED << fmtVars, ovVars, regVars, hookVars, diffVars, otherThanDecorations >>

InitDecorations ==
    /\ FormatterIdle
    /\ OverlayIdle
    /\ RegistryIdle
    /\ HookIdle
    /\ DifferIdle
    /\ TreeIdle
    /\ CompletionIdle
    /\ DecorationsIdle

NextDecorations ==
    \/ AddDecoration
    \/ RegisterPositon
    \/ PrepareForRendering
    \/ DecoratePosition

SpecDecorations == InitDecorations /\ [][NextDecorations]_vars

\* ------------------------------------------- what the decorations observe
\* the first decorate_position call of the render pass for char_idx
FirstCallAt(char_idx) ==
    CHOOSE k \in 1..Len(rendering.positions) :
       /\ rendering.positions[k] = char_idx
       /\ \A j \in 1..(k - 1) : rendering.positions[j] # char_idx

\* a registered pair that is due: not before the first visible char, and
\* at a char index decorate_position was called for
Due(hook) ==
    /\ hook.char_idx >= rendering.first_visible_char
    /\ \E k \in 1..Len(rendering.positions) : rendering.positions[k] = hook.char_idx

\* the due pairs by ascending char index, ties in the order the
\* decorations were added, each with the first call for its char index
DueInvocations ==
    LET due == SelectSeq(sort_unstable(registered), Due)
    IN [i \in 1..Len(due) |-> Decorated(FirstCallAt(due[i].char_idx), due[i])]

\* C28: in a render pass the invocations of the decorations are exactly
\* the registered pairs at or after the first visible char whose char index
\* a decorate_position call had, each once, on the first call for its char
\* index, by ascending char index and, within one char index, in the order
\* the decorations were added.
C28_EveryDuePairDecoratedOnce == rendering.prepared => decorated = DueInvocations

\* -------------------------------------------------- helix-term/ui/tree.rs
\* const NO_PARENT: usize = usize::MAX, above every index of the model
NO_PARENT == 2147483647

\* what TreeData::expand yields for a child: (node, is_leave)
Dir(name) == [name |-> name, is_leaf |-> FALSE]

Leaf(name) == [name |-> name, is_leaf |-> TRUE]

\* TestData of tree/tests.rs for "foo", "foo/bar", "foo/bar/3", "foobar",
\* "foo/bar2", the children in ascending order
TestData ==
    (<< >> :> << Dir(1), Leaf(2) >>)
       @@ (<< 1 >> :> << Dir(1), Leaf(2) >>)
       @@ (<< 1, 1 >> :> << Leaf(3) >>)

\* the same TestData, its HashMaps iterating in another order
TestDataUnordered ==
    (<< >> :> << Leaf(2), Dir(1) >>)
       @@ (<< 1 >> :> << Leaf(2), Dir(1) >>)
       @@ (<< 1, 1 >> :> << Leaf(3) >>)

\* a TreeData with an empty inner node and one whose expand returns Err
TestDataFailing ==
    (<< >> :> << Dir(2), Dir(1) >>)
       @@ (<< 1 >> :> << >>)

\* a TreeData with two inner nodes side by side and leaves after them
TestDataSiblings ==
    (<< >> :> << Dir(1), Dir(2), Leaf(3), Leaf(4) >>)
       @@ (<< 1 >> :> << Leaf(1), Leaf(2) >>)
       @@ (<< 2 >> :> << Leaf(1) >>)

\* the data models a Tree is constructed with
DataModels == {TestData, TestDataUnordered, TestDataFailing}

\* the data models of a Tree whose selection is moved
DataModelsSelected == {TestData, TestDataUnordered, TestDataSiblings}

\* const TEST_TREE_HEIGHT: usize = 3
TEST_TREE_HEIGHT == 3

\* the heights of a Tree whose selection is moved: one line and
\* TEST_TREE_HEIGHT
TreeHeights == {1, TEST_TREE_HEIGHT}

\* const TEST_TREE_SCROLLOFF: usize = 1
TEST_TREE_SCROLLOFF == 1

\* the paths reveal_path is called with
RevealPaths == {<< 1 >>, << 1, 1 >>, << 1, 1, 3 >>, << 1, 2 >>, << 2, 1 >>}

\* Ord of [N]: lexicographic, a proper prefix first
RECURSIVE PathLess(_, _)
PathLess(p, q) ==
    IF q = << >> THEN FALSE
    ELSE IF p = << >> THEN TRUE
    ELSE \/ Head(p) < Head(q)
         \/ Head(p) = Head(q) /\ PathLess(Tail(p), Tail(q))

\* sort_unstable_by(|node1, node2| node1.path.cmp(&node2.path)), for nodes
\* of distinct paths
RECURSIVE SortNodes(_)
SortNodes(list) ==
    IF list = << >> THEN << >>
    ELSE LET rest == SortNodes(Tail(list))
         IN SelectSeq(rest, LAMBDA x : PathLess(x.path, Head(list).path))
               \o << Head(list) >>
               \o SelectSeq(rest, LAMBDA x : ~PathLess(x.path, Head(list).path))

\* the Node that expand and refresh construct for a child
NewNode(path, is_leaf, parent_idx) ==
    [path |-> path,
     children |-> 0,
     parent_idx_cache |-> parent_idx,
     expanded |-> is_leaf,
     show_children |-> FALSE]

\* the nodes for the children the data model yields for path
ChildNodes(model, path, parent_idx) ==
    [j \in 1..Len(model[path]) |->
        NewNode(Append(path, model[path][j].name), model[path][j].is_leaf, parent_idx)]

\* binary_search_by_key(&path, |item| &item.path) on the first len nodes of
\* a list sorted by path: the indices found
FindPath(list, len, path) == {j \in 0..(len - 1) : list[j + 1].path = path}

\* Node::parent_idx(&self, nodes) for the node at idx, nodes being the
\* slice before idx: the index, the list with the cache refreshed, and
\* whether the call panicked (the cache beyond the slice, or no parent)
parent_idx(list, idx) ==
    LET node == list[idx + 1]
        parent_path == SubSeq(node.path, 1, Len(node.path) - 1)
        cache == node.parent_idx_cache
        found == FindPath(list, idx, parent_path)
    IN IF cache = NO_PARENT THEN [panic |-> FALSE, idx |-> NO_PARENT, nodes |-> list]
       ELSE IF cache >= idx THEN [panic |-> TRUE, idx |-> NO_PARENT, nodes |-> list]
       ELSE IF list[cache + 1].path = parent_path
            THEN [panic |-> FALSE, idx |-> cache, nodes |-> list]
       ELSE IF found = {} THEN [panic |-> TRUE, idx |-> NO_PARENT, nodes |-> list]
       ELSE [panic |-> FALSE,
             idx |-> CHOOSE j \in found : TRUE,
             nodes |-> [list EXCEPT ![idx + 1].parent_idx_cache = CHOOSE j \in found : TRUE]]

\* AncestorsMut::new(nodes, idx) iterated to its end: the indices yielded
\* (the node at idx first), the list with the caches refreshed, and whether
\* a parent_idx panicked
RECURSIVE AncestorsMut(_, _)
AncestorsMut(list, idx) ==
    LET p == parent_idx(list, idx)
    IN IF p.panic THEN [panic |-> TRUE, yielded |-> << >>, nodes |-> list]
       ELSE IF p.idx = NO_PARENT
            THEN [panic |-> FALSE, yielded |-> << idx >>, nodes |-> p.nodes]
       ELSE LET rest == AncestorsMut(p.nodes, p.idx)
            IN [panic |-> rest.panic,
                yielded |-> << idx >> \o rest.yielded,
                nodes |-> rest.nodes]

\* the ancestors yielded get num_children more children and, in expand,
\* show them
AddChildren(list, yielded, num_children, show) ==
    [j \in 1..Len(list) |->
        IF \E k \in 1..Len(yielded) : yielded[k] + 1 = j
        THEN [list[j] EXCEPT !.children = @ + num_children,
                             !.show_children = IF show THEN TRUE ELSE @]
        ELSE list[j]]

\* Tree::expand, its part on the node list: the list afterwards, Ok, Err or
\* panic, the number of nodes inserted and whether the node was expanded
\* before
ExpandNodes(list, idx, model) ==
    LET item == list[idx + 1]
        shown == [list EXCEPT ![idx + 1].show_children = TRUE]
        marked == [shown EXCEPT ![idx + 1].expanded = TRUE]
        children == SortNodes(ChildNodes(model, item.path, idx))
        spliced == SubSeq(marked, 1, idx + 1) \o children
                      \o SubSeq(marked, idx + 2, Len(marked))
        ancestors == AncestorsMut(spliced, idx)
    IN IF item.expanded
       THEN [nodes |-> shown, outcome |-> "Ok", num_children |-> 0, was_expanded |-> TRUE]
       ELSE IF item.path \notin DOMAIN model
       THEN [nodes |-> marked, outcome |-> "Err", num_children |-> 0,
             was_expanded |-> FALSE]
       ELSE IF Len(children) = 0
       THEN [nodes |-> spliced, outcome |-> "Ok", num_children |-> 0,
             was_expanded |-> FALSE]
       ELSE [nodes |-> AddChildren(ancestors.nodes, ancestors.yielded, Len(children), TRUE),
             outcome |-> IF ancestors.panic THEN "panic" ELSE "Ok",
             num_children |-> Len(children),
             was_expanded |-> FALSE]

\* the loop of Tree::collapse over ancestors_mut(idx + children), from the
\* node at from: it ends at the first ancestor above depth
RECURSIVE CollapseLoop(_, _, _)
CollapseLoop(list, from, depth) ==
    LET p == parent_idx(list, from)
        hidden == [p.nodes EXCEPT ![from + 1].show_children = FALSE]
    IN IF p.panic THEN [nodes |-> list, outcome |-> "panic"]
       ELSE IF Len(list[from + 1].path) < depth THEN [nodes |-> p.nodes, outcome |-> "Ok"]
       ELSE IF p.idx = NO_PARENT THEN [nodes |-> hidden, outcome |-> "Ok"]
       ELSE CollapseLoop(hidden, p.idx, depth)

\* t is [nodes, selection, top, outcome]: the fields of the Tree that a
\* call changes, and whether the call returned Ok, Err or panicked.
\* Tree::next
tree_next(list, idx) ==
    IF idx + 1 >= Len(list) THEN None
    ELSE IF list[idx + 1].show_children
    THEN Some(idx + 1)
    ELSE IF idx + 1 + list[idx + 1].children < Len(list)
    THEN Some(idx + 1 + list[idx + 1].children)
    ELSE None

\* Tree::nth
RECURSIVE nth(_, _, _)
nth(list, idx, off) ==
    IF off = 0 \/ ~IsSome(tree_next(list, idx)) THEN idx
    ELSE nth(list, Unwrap(tree_next(list, idx)), off - 1)

\* ancestors(idx).take_while(|(_, ancestor)| !ancestor.show_children).last():
\* Ancestors::next asks the node for its parent before it yields the node
RECURSIVE TakeWhileHidden(_, _, _)
TakeWhileHidden(list, idx, last) ==
    LET p == parent_idx(list, idx)
    IN IF p.panic THEN [panic |-> TRUE, idx |-> last, nodes |-> list]
       ELSE IF list[idx + 1].show_children
       THEN [panic |-> FALSE, idx |-> last, nodes |-> p.nodes]
       ELSE IF p.idx = NO_PARENT THEN [panic |-> FALSE, idx |-> idx, nodes |-> p.nodes]
       ELSE TakeWhileHidden(p.nodes, p.idx, idx)

\* Tree::first_visible_ancestor
first_visible_ancestor(list, idx) ==
    IF idx >= Len(list) THEN [panic |-> TRUE, idx |-> idx, nodes |-> list]
    ELSE TakeWhileHidden(list, idx, idx)

\* Tree::prev: a is what first_visible_ancestor returned
PrevFound(a) == [panic |-> a.panic, res |-> Some(a.idx), nodes |-> a.nodes]

tree_prev(list, idx) ==
    IF idx = 0 THEN [panic |-> FALSE, res |-> None, nodes |-> list]
    ELSE PrevFound(first_visible_ancestor(list, idx - 1))

\* Tree::nth_rev: p is what prev returned
RECURSIVE nth_rev(_, _, _)
NthRevStep(p, idx, off) ==
    IF p.panic \/ ~IsSome(p.res)
    THEN [panic |-> p.panic, idx |-> idx, nodes |-> p.nodes]
    ELSE nth_rev(p.nodes, Unwrap(p.res), off - 1)

nth_rev(list, idx, off) ==
    IF off = 0 THEN [panic |-> FALSE, idx |-> idx, nodes |-> list]
    ELSE NthRevStep(tree_prev(list, idx), idx, off)

\* ensure_selection_visible: scrolloff.min(height.saturating_sub(1) / 2)
Scrolloff == IF height = 0 THEN 0 ELSE Min2(scrolloff, (height - 1) \div 2)

\* ensure_selection_visible: the else branch, bot is what
\* nth_rev(selection, height - scrolloff) returned
ScrollBottom(t, bot) ==
    [nodes |-> bot.nodes,
     selection |-> t.selection,
     top |-> IF ~bot.panic /\ t.top < bot.idx THEN bot.idx ELSE t.top,
     outcome |-> IF bot.panic THEN "panic" ELSE t.outcome]

\* ensure_selection_visible: scrolloff_top is what
\* nth_rev(selection, scrolloff) returned
ScrollTop(t, scrolloff_top) ==
    IF scrolloff_top.panic
    THEN [t EXCEPT !.nodes = scrolloff_top.nodes, !.outcome = "panic"]
    ELSE IF scrolloff_top.idx < t.top
    THEN [t EXCEPT !.nodes = scrolloff_top.nodes, !.top = scrolloff_top.idx]
    ELSE ScrollBottom(t, nth_rev(scrolloff_top.nodes, t.selection, height - Scrolloff))

\* ensure_selection_visible: an empty tree or view has selection = top = 0
ResetEmpty(t) ==
    IF t.nodes = << >> \/ height = 0 THEN [t EXCEPT !.selection = 0, !.top = 0] ELSE t

ScrollToSelection(t) == ScrollTop(t, nth_rev(t.nodes, t.selection, Scrolloff))

\* Tree::ensure_selection_visible
ensure_selection_visible(t) == ScrollToSelection(ResetEmpty(t))

\* Tree::set_selection
set_selection(t, idx) == ensure_selection_visible([t EXCEPT !.selection = idx])

\* Tree::move_up: p is what prev(selection) returned
MoveTo(t, p) ==
    IF p.panic THEN [t EXCEPT !.nodes = p.nodes, !.outcome = "panic"]
    ELSE IF IsSome(p.res) THEN set_selection([t EXCEPT !.nodes = p.nodes], Unwrap(p.res))
    ELSE [t EXCEPT !.nodes = p.nodes]

move_up(t) == MoveTo(t, tree_prev(t.nodes, t.selection))

\* Tree::move_down
move_down(t) ==
    IF IsSome(tree_next(t.nodes, t.selection))
    THEN set_selection(t, Unwrap(tree_next(t.nodes, t.selection)))
    ELSE t

\* a Tree that adds the number of inserted nodes to top and selection
ShiftedByCount(t, list, idx, num_children) ==
    [nodes |-> list,
     selection |-> IF t.selection > idx THEN t.selection + num_children
                   ELSE t.selection,
     top |-> IF t.top > idx THEN t.top + num_children ELSE t.top,
     outcome |-> t.outcome]

\* Tree::expand: top and selection after num_children nodes were inserted
\* after idx, list being the node list with them
Shifted(t, list, idx, num_children) ==
    [nodes |-> list,
     selection |-> IF t.selection > idx THEN nth(list, t.selection, num_children)
                   ELSE t.selection,
     top |-> IF t.top > idx THEN nth(list, t.top, num_children) ELSE t.top,
     outcome |-> t.outcome]

\* Tree::expand: e is what the part on the node list returned
ExpandView(t, idx, e) ==
    IF e.outcome # "Ok" THEN [t EXCEPT !.nodes = e.nodes, !.outcome = e.outcome]
    ELSE IF e.was_expanded THEN ensure_selection_visible([t EXCEPT !.nodes = e.nodes])
    ELSE IF e.num_children = 0 THEN [t EXCEPT !.nodes = e.nodes]
    ELSE ensure_selection_visible(Shifted(t, e.nodes, idx, e.num_children))

\* Tree::expand
expand(t, idx, model) == ExpandView(t, idx, ExpandNodes(t.nodes, idx, model))

\* Tree::collapse: c is what the loop returned, children the number of
\* nodes below idx
CollapseView(t, idx, children, c) ==
    IF c.outcome = "panic" THEN [t EXCEPT !.nodes = c.nodes, !.outcome = "panic"]
    ELSE ensure_selection_visible(
           [nodes |-> c.nodes,
            selection |-> IF t.selection > idx /\ t.selection <= idx + children
                          THEN idx ELSE t.selection,
            top |-> IF t.top > idx /\ t.top <= idx + children THEN idx ELSE t.top,
            outcome |-> t.outcome])

\* Tree::collapse
collapse(t, idx) ==
    CollapseView(t, idx, t.nodes[idx + 1].children,
                 CollapseLoop(t.nodes, idx + t.nodes[idx + 1].children,
                              Len(t.nodes[idx + 1].path)))

\* Tree::reveal_path from the prefix of length depth on
RECURSIVE reveal_path(_, _, _, _)
\* reveal_path: expanded is what expand(item_index) returned
Revealed(expanded, path, depth, model) ==
    IF expanded.outcome # "Ok" THEN expanded
    ELSE reveal_path(expanded, path, depth + 1, model)

reveal_path(t, path, depth, model) ==
    IF depth >= Len(path)
    THEN [t EXCEPT !.outcome =
             IF FindPath(t.nodes, Len(t.nodes), path) = {} THEN "Err" ELSE "Ok"]
    ELSE IF FindPath(t.nodes, Len(t.nodes), SubSeq(path, 1, depth)) = {}
    THEN [t EXCEPT !.outcome = "Err"]
    ELSE Revealed(expand(t, CHOOSE j \in FindPath(t.nodes, Len(t.nodes),
                                                   SubSeq(path, 1, depth)) : TRUE,
                         model),
                  path, depth, model)

\* what a user sees of the node list: the paths, which nodes are expanded
\* and how many descendants each has
Shape(list) ==
    [j \in 1..Len(list) |->
        [path |-> list[j].path, expanded |-> list[j].expanded, children |-> list[j].children]]

\* the record of a call
TreeCall(op, arg, outcome) ==
    [op |-> op, arg |-> arg, before |-> Shape(nodes), selection |-> selection,
     top |-> top, outcome |-> outcome]

\* the Tree after a call that ended with outcome
AfterCall(outcome) == IF outcome = "panic" THEN "panicked" ELSE "idle"

\* the fields of the Tree a call works on
ThisTree == [nodes |-> nodes, selection |-> selection, top |-> top, outcome |-> "Ok"]

\* a call of the Tree ends with result
TreeReturns(op, arg, result) ==
    /\ nodes' = result.nodes
    /\ selection' = result.selection
    /\ top' = result.top
    /\ tree_pc' = AfterCall(result.outcome)
    /\ last_call' = TreeCall(op, arg, result.outcome)
    /\ UNCHANGED << data_model, height, scrolloff, refresh_locals >>
    /\ UNCHANGED << fmtVars, ovVars, regVars, hookVars, diffVars, otherThanTree >>

\* Tree::expand
TreeExpand ==
    /\ tree_pc = "idle"
    /\ \E idx \in 0..(Len(nodes) - 1) :
          TreeReturns("expand", idx, expand(ThisTree, idx, data_model))

\* Tree::collapse
TreeCollapse ==
    /\ tree_pc = "idle"
    /\ \E idx \in 0..(Len(nodes) - 1) :
          TreeReturns("collapse", idx, collapse(ThisTree, idx))

\* Tree::reveal_path
TreeRevealPath ==
    /\ tree_pc = "idle"
    /\ \E path \in RevealPaths :
          TreeReturns("reveal_path", path, reveal_path(ThisTree, path, 1, data_model))

\* Tree::set_selection, for every idx its assert lets through
TreeSetSelection ==
    /\ tree_pc = "idle"
    /\ \E idx \in 0..Len(nodes) :
          TreeReturns("set_selection", idx, set_selection(ThisTree, idx))

\* Tree::move_up
TreeMoveUp ==
    /\ tree_pc = "idle"
    /\ TreeReturns("move_up", << >>, move_up(ThisTree))

\* Tree::move_down
TreeMoveDown ==
    /\ tree_pc = "idle"
    /\ TreeReturns("move_down", << >>, move_down(ThisTree))

\* the root nodes refresh starts new_nodes with
RootNodes(model) ==
    [j \in 1..Len(model[<< >>]) |->
        NewNode(<< model[<< >>][j].name >>, model[<< >>][j].is_leaf, NO_PARENT)]

\* unexpanded_nodes.insert(path, first + j) for the nodes of list that are
\* not leaves, list being new_nodes[first..]
InsertUnexpanded(unexpanded_nodes, list, first) ==
    LET inner == {j \in 1..Len(list) : ~list[j].expanded}
        at(path) == CHOOSE j \in inner : list[j].path = path
    IN [path \in DOMAIN unexpanded_nodes \cup {list[j].path : j \in inner} |->
           IF \E j \in inner : list[j].path = path
           THEN first + at(path) - 1
           ELSE unexpanded_nodes[path]]

\* a refresh that expands no node again
ShouldExpandNever(item) == FALSE

\* if !item.expanded { continue; }
ShouldExpand(item) == item.expanded

\* Tree::refresh up to its loop
RefreshBegin ==
    /\ tree_pc = "idle"
    /\ last_call' = TreeCall("refresh", << >>, "Ok")
    /\ IF << >> \in DOMAIN data_model
       THEN /\ tree_pc' = "refresh"
            /\ refresh_locals' =
                  [unexpanded_nodes |->
                      InsertUnexpanded(<< >>, RootNodes(data_model), 0),
                   new_nodes |-> RootNodes(data_model),
                   i |-> 0]
            /\ UNCHANGED << nodes, selection >>
       ELSE /\ nodes' = << >>
            /\ selection' = 0
            /\ UNCHANGED << tree_pc, refresh_locals >>
    /\ UNCHANGED << data_model, top, height, scrolloff >>
    /\ UNCHANGED << fmtVars, ovVars, regVars, hookVars, diffVars, otherThanTree >>

\* one iteration of the loop of Tree::refresh
RefreshStep ==
    /\ tree_pc = "refresh"
    /\ refresh_locals.i < Len(nodes)
    /\ LET item == nodes[refresh_locals.i + 1]
           unexpanded_nodes == refresh_locals.unexpanded_nodes
           new_nodes == refresh_locals.new_nodes
           new_idx == unexpanded_nodes[item.path]
           removed == [path \in DOMAIN unexpanded_nodes \ {item.path} |->
                          unexpanded_nodes[path]]
           marked == [new_nodes EXCEPT ![new_idx + 1].expanded = TRUE]
           shown == [marked EXCEPT ![new_idx + 1].show_children = item.show_children]
           children == ChildNodes(data_model, item.path, new_idx)
           extended == shown \o children
           ancestors == AncestorsMut(extended, new_idx)
       IN IF item.path \notin DOMAIN unexpanded_nodes
          THEN /\ refresh_locals' =
                     [refresh_locals EXCEPT !.i = @ + 1 + item.children]
               /\ UNCHANGED tree_pc
          ELSE IF ~ShouldExpand(item)
          THEN /\ refresh_locals' =
                     [refresh_locals EXCEPT !.unexpanded_nodes = removed]
               /\ UNCHANGED tree_pc
          ELSE IF item.path \notin DOMAIN data_model
          THEN /\ refresh_locals' =
                     [refresh_locals EXCEPT !.unexpanded_nodes = removed,
                                            !.new_nodes = marked]
               /\ UNCHANGED tree_pc
          ELSE IF Len(children) = 0
          THEN /\ refresh_locals' =
                     [unexpanded_nodes |-> removed,
                      new_nodes |-> extended,
                      i |-> refresh_locals.i + 1]
               /\ UNCHANGED tree_pc
          ELSE /\ refresh_locals' =
                     [unexpanded_nodes |->
                         InsertUnexpanded(removed, children, Len(shown)),
                      new_nodes |->
                         AddChildren(ancestors.nodes, ancestors.yielded,
                                     Len(children), FALSE),
                      i |-> refresh_locals.i + 1]
               /\ tree_pc' = IF ancestors.panic THEN "panicked" ELSE "refresh"
    /\ UNCHANGED << data_model, nodes, selection, top, height, scrolloff, last_call >>
    /\ UNCHANGED << fmtVars, ovVars, regVars, hookVars, diffVars, otherThanTree >>

\* refresh: the index of the path of old_selection in the sorted new_nodes,
\* 0 when there was no old selection or its path is gone
NewSelection(list, old_selection, sorted) ==
    IF old_selection < Len(list)
       /\ FindPath(sorted, Len(sorted), list[old_selection + 1].path) # {}
    THEN CHOOSE j \in FindPath(sorted, Len(sorted), list[old_selection + 1].path) : TRUE
    ELSE 0

\* Tree::refresh after its loop
RefreshEnd ==
    /\ tree_pc = "refresh"
    /\ refresh_locals.i >= Len(nodes)
    /\ nodes' = SortNodes(refresh_locals.new_nodes)
    /\ selection' = NewSelection(nodes, selection, SortNodes(refresh_locals.new_nodes))
    /\ tree_pc' = "idle"
    /\ refresh_locals' = NoRefresh
    /\ UNCHANGED << data_model, top, height, scrolloff, last_call >>
    /\ UNCHANGED << fmtVars, ovVars, regVars, hookVars, diffVars, otherThanTree >>

\* Tree::new(data_model, height, scrolloff): refresh on the empty node list
TreeNew(models, heights) ==
    /\ FormatterIdle
    /\ OverlayIdle
    /\ RegistryIdle
    /\ HookIdle
    /\ DifferIdle
    /\ DecorationsIdle
    /\ CompletionIdle
    /\ data_model \in models
    /\ nodes = IF << >> \in DOMAIN data_model
               THEN SortNodes(RootNodes(data_model))
               ELSE << >>
    /\ selection = 0
    /\ top = 0
    /\ height \in heights
    /\ scrolloff = TEST_TREE_SCROLLOFF
    /\ tree_pc = "idle"
    /\ refresh_locals = NoRefresh
    /\ last_call = NoCall

InitTree == TreeNew(DataModels, {TEST_TREE_HEIGHT})

NextTree ==
    \/ TreeExpand
    \/ TreeCollapse
    \/ TreeRevealPath
    \/ RefreshBegin
    \/ RefreshStep
    \/ RefreshEnd

SpecTree == InitTree /\ [][NextTree]_vars

\* refresh is a loop without an await: once called it runs on
SpecTreeFair == SpecTree /\ WF_vars(RefreshStep \/ RefreshEnd)

\* a Tree whose user also moves the selection
InitTreeSelected == TreeNew(DataModelsSelected, TreeHeights)

NextTreeSelected ==
    \/ TreeExpand
    \/ TreeCollapse
    \/ TreeRevealPath
    \/ RefreshBegin
    \/ RefreshStep
    \/ RefreshEnd
    \/ TreeSetSelection
    \/ TreeMoveUp
    \/ TreeMoveDown

SpecTreeSelected == InitTreeSelected /\ [][NextTreeSelected]_vars

\* ----------------------------------------- what the user of a Tree observes
\* the nodes below the node at j (1-based), by their paths
DescendantsOf(j) ==
    {k \in 1..Len(nodes) :
        /\ Len(nodes[k].path) > Len(nodes[j].path)
        /\ IsPrefix(nodes[j].path, nodes[k].path)}

\* the node list is strictly sorted by path, the descendants of a node
\* directly follow it, and children counts them
WellFormed ==
    /\ \A j \in 1..Len(nodes) : \A k \in (j + 1)..Len(nodes) :
          PathLess(nodes[j].path, nodes[k].path)
    /\ \A j \in 1..Len(nodes) :
          /\ DescendantsOf(j) = (j + 1)..(j + nodes[j].children)
          /\ nodes[j].children = Cardinality(DescendantsOf(j))

\* the paths of a list of nodes
PathsOf(list) == [j \in 1..Len(list) |-> list[j].path]

\* the paths the node list has after expand(idx) on the list before
ExpandedPaths(before, idx) ==
    LET path == before[idx + 1].path
    IN IF before[idx + 1].expanded \/ path \notin DOMAIN data_model
       THEN PathsOf(before)
       ELSE SubSeq(PathsOf(before), 1, idx + 1)
               \o PathsOf(SortNodes(ChildNodes(data_model, path, idx)))
               \o SubSeq(PathsOf(before), idx + 2, Len(before))

\* C29: whenever the Tree is not inside a call, its node list is strictly
\* sorted by path with the descendants of every node directly after it and
\* counted by its children field; and after expand(idx) the list is the one
\* before with the sorted children of the node inserted after idx if the
\* node was not expanded, and with the same nodes if it was (a leaf is).
C29_NodeListWellFormed ==
    tree_pc \in {"idle", "panicked"} =>
       /\ WellFormed
       /\ last_call.op = "expand" =>
             PathsOf(nodes) = ExpandedPaths(last_call.before, last_call.arg)

\* a refresh has returned
Refreshed == tree_pc = "idle" /\ last_call.op = "refresh"

\* C30: after refresh() the node list has the paths it had, in the same
\* order, with the same nodes expanded and the same numbers of children,
\* and every refresh returns.
C30_RefreshKeepsNodeList ==
    /\ [](Refreshed => Shape(nodes) = last_call.before)
    /\ [](tree_pc = "refresh" => <>(tree_pc # "refresh"))

\* a refresh returned on a tree with an expanded node inside an expanded
\* node
C30_Witness ==
    /\ Refreshed
    /\ \E j \in 1..Len(nodes) :
          /\ Len(nodes[j].path) = 2
          /\ nodes[j].expanded
          /\ nodes[j].children > 0

\* --------------------------------------- helix-term/handlers/completion.rs
\* the cursor positions of the triggers and of the deletions
MaxCursor == 2

\* CompletionTrigger { trigger_pos, doc, view, auto }, one document and view
CompletionTrigger(trigger_pos, auto) == [trigger_pos |-> trigger_pos, auto |-> auto]

\* enum CompletionEvent
CompletionEvents ==
    {[kind |-> "Trigger", trigger |-> CompletionTrigger(trigger_pos, auto)] :
        trigger_pos \in 0..MaxCursor, auto \in BOOLEAN}
       \cup {[kind |-> "Cancel"], [kind |-> "Manual"]}
       \cup {[kind |-> "DeletText", pos |-> pos] : pos \in 0..MaxCursor}

\* a handler in which an auto trigger replaces the pending one
AutoTriggerReplaces(pending, new) == Some(new)

\* else if self.trigger.is_none() { self.trigger = Some(trigger) }
AutoTrigger(pending, new) == IF IsSome(pending) THEN pending ELSE Some(new)

\* the cursor after the deletion is before the pending trigger
DeletedBefore(pending, pos) == IsSome(pending) /\ pos < Unwrap(pending).trigger_pos

\* matches!(self.trigger, Some(CompletionTrigger{ trigger_pos,..}) if trigger_pos < pos)
TriggerDeleted(pending, pos) == IsSome(pending) /\ Unwrap(pending).trigger_pos < pos

\* CompletionHandler::finish_debounce: the trigger is taken, a new handle
\* is stored
finish_debounce(handler) == [trigger |-> None, request |-> Some("open")]

\* the match of CompletionHandler::handle_event
MatchEvent(handler, event) ==
    IF event.kind = "Trigger"
    THEN (IF ~event.trigger.auto
          THEN [trigger |-> Some(event.trigger), request |-> None]
          ELSE [handler EXCEPT !.trigger = AutoTrigger(handler.trigger, event.trigger)])
    ELSE IF event.kind = "Cancel" THEN [trigger |-> None, request |-> None]
    ELSE IF event.kind = "DeletText"
    THEN (IF TriggerDeleted(handler.trigger, event.pos)
          THEN [trigger |-> None, request |-> None]
          ELSE handler)
    ELSE finish_debounce([trigger |-> None, request |-> None])

\* Instant::now() + timeout: the configured completion_timeout for an auto
\* trigger, 5 ms for a trigger char
TimeoutOf(pending) == IF pending.auto THEN "completion_timeout" ELSE "5ms"

\* the end of CompletionHandler::handle_event: a closed request is
\* forgotten, an open one keeps the timeout from starting
AfterMatch(handler) ==
    IF handler.request = Some("open")
    THEN [handler |-> handler, returned |-> None]
    ELSE [handler |-> [handler EXCEPT !.request = None],
          returned |-> IF IsSome(handler.trigger)
                       THEN Some(TimeoutOf(Unwrap(handler.trigger)))
                       ELSE None]

\* CompletionHandler::handle_event
handle_completion_event(handler, event) == AfterMatch(MatchEvent(handler, event))

\* the record of a call of the handler
HandledRecord(op, event, after, returned) ==
    [op |-> op,
     event |-> event,
     before |-> [trigger |-> trigger, request |-> request],
     after |-> after,
     returned |-> returned]

\* the runner takes an event from the channel: deadline = handle_event(..)
CompletionHandleEvent ==
    /\ handled.op # "new"
    /\ \E event \in CompletionEvents :
          LET result == handle_completion_event([trigger |-> trigger, request |-> request], event)
          IN /\ trigger' = result.handler.trigger
             /\ request' = result.handler.request
             /\ completion_deadline' = result.returned
             /\ handled' = HandledRecord("handle_event", event, result.handler, result.returned)
    /\ UNCHANGED << fmtVars, ovVars, regVars, hookVars, diffVars, otherThanCompletion >>

\* the deadline of the runner passes: finish_debounce, deadline = None
CompletionFinishDebounce ==
    /\ handled.op # "new"
    /\ IsSome(completion_deadline)
    /\ trigger' = finish_debounce([trigger |-> trigger, request |-> request]).trigger
    /\ request' = finish_debounce([trigger |-> trigger, request |-> request]).request
    /\ completion_deadline' = None
    /\ handled' = HandledRecord("finish_debounce", << >>,
                                finish_debounce([trigger |-> trigger, request |-> request]),
                                None)
    /\ UNCHANGED << fmtVars, ovVars, regVars, hookVars, diffVars, otherThanCompletion >>

\* request_completion ends or is cancelled: the CancelRx of the stored
\* handle is dropped
RequestClosed ==
    /\ handled.op # "new"
    /\ request = Some("open")
    /\ request' = Some("closed")
    /\ UNCHANGED << trigger, completion_deadline, handled >>
    /\ UNCHANGED << fmtVars, ovVars, regVars, hookVars, diffVars, otherThanCompletion >>

\* CompletionHandler::new, spawned
InitCompletion ==
    /\ FormatterIdle
    /\ OverlayIdle
    /\ RegistryIdle
    /\ HookIdle
    /\ DifferIdle
    /\ DecorationsIdle
    /\ TreeIdle
    /\ trigger = None
    /\ request = None
    /\ completion_deadline = None
    /\ handled = [NotHandled EXCEPT !.op = "spawn"]

NextCompletion ==
    \/ CompletionHandleEvent
    \/ CompletionFinishDebounce
    \/ RequestClosed

SpecCompletion == InitCompletion /\ [][NextCompletion]_vars

\* ------------------------------------- what the senders of events observe
\* a completion request is in flight
InFlight(handle) == handle = Some("open")

\* C39: while a request is in flight no deadline is armed, and a call of
\* handle_event that leaves a request in flight returns None; an auto
\* trigger leaves a pending trigger as it is; after finish_debounce no
\* trigger is pending and a request handle is stored.
C39_NoDebounceWhileInFlight ==
    /\ InFlight(request) => completion_deadline = None
    /\ handled.op = "handle_event" =>
          /\ InFlight(handled.after.request) => handled.returned = None
          /\ (/\ handled.event.kind = "Trigger"
              /\ handled.event.trigger.auto
              /\ IsSome(handled.before.trigger))
                => handled.after.trigger = handled.before.trigger
    /\ handled.op = "finish_debounce" =>
          /\ trigger = None
          /\ IsSome(request)
          /\ handled.after.trigger = None
          /\ InFlight(handled.after.request)

\* an auto trigger at another position came while a request was in flight
\* and a trigger pending
C39_Witness ==
    /\ handled.op = "handle_event"
    /\ InFlight(handled.before.request)
    /\ InFlight(request)
    /\ handled.event.kind = "Trigger"
    /\ handled.event.trigger.auto
    /\ IsSome(handled.before.trigger)
    /\ Unwrap(handled.before.trigger) # handled.event.trigger

\* C40: DeletText { pos } drops the pending trigger and the request exactly
\* when a trigger is pending and pos is before its trigger_pos; otherwise
\* the trigger is left as it is and so is a request in flight.
C40_DeleteAbortsBeforeTrigger ==
    (handled.op = "handle_event" /\ handled.event.kind = "DeletText") =>
       IF DeletedBefore(handled.before.trigger, handled.event.pos)
       THEN handled.after.trigger = None /\ handled.after.request = None
       ELSE /\ handled.after.trigger = handled.before.trigger
            /\ InFlight(handled.before.request) =>
                  handled.after.request = handled.before.request

\* ------------------------------------------- the event queue of the composer
\* the events queued in the composer
Queued == IF IsSome(overlay_state) THEN Unwrap(overlay_state).queue ELSE << >>

\* what is queued is HighlightEnd below Source: never more than the two
\* slots of the array, and popped as Source first, then HighlightEnd
QueueInBounds ==
    /\ Len(Queued) <= 2
    /\ Len(Queued) >= 1 => Queued[1].event = HighlightEnd
    /\ Len(Queued) = 2 => Queued[2].event.type = "Source"

\* a next() call with an event queued returns the event pushed last and
\* reads neither the base stream nor the spans
QueueDrainedFirst ==
    (IsSome(overlay_state) /\ Len(Queued) > 0) =>
       /\ emitted' = Append(emitted, Some(Queued[Len(Queued)]))
       /\ Unwrap(overlay_state') =
             [Unwrap(overlay_state) EXCEPT !.queue = SubSeq(Queued, 1, Len(Queued) - 1)]

\* C37: at most two events are ever queued, so every push is to a slot of
\* the array; a next() call that finds an event queued returns it without
\* reading the base stream; and the queued events come out as Source
\* first, then HighlightEnd.
C37_QueueHoldsAtMostTwo == []QueueInBounds /\ [][QueueDrainedFirst]_vars

\* a span was opened, and its Source and its HighlightEnd came from the
\* queue in the two calls after
C37_Witness ==
    /\ Queued = << >>
    /\ \E k \in 1..(Len(emitted) - 2) :
          /\ IsSome(emitted[k]) /\ Unwrap(emitted[k]).event.type = "HighlightStart"
          /\ Unwrap(emitted[k]).from = "spans"
          /\ IsSome(emitted[k + 1]) /\ Unwrap(emitted[k + 1]).event.type = "Source"
          /\ IsSome(emitted[k + 2]) /\ Unwrap(emitted[k + 2]).event = HighlightEnd

\* ------------------------------------------- the rows of the soft-wrap mode
\* the Newline graphemes yielded so far
NewlinesYielded ==
    Len(SelectSeq([j \in Calls |-> j],
                  LAMBDA j : Yielded(j) /\ Item(j).grapheme.kind = "Newline"))

\* the virtual rows still pending: those of the counter and those set aside
\* with the peeked grapheme
PendingLines(f) ==
    f.virtual_lines + (IF IsSome(f.peeked_grapheme)
                       THEN Unwrap(f.peeked_grapheme).virtual_lines ELSE 0)

\* the pending virtual-row counter has not gone below zero
NoUnderflow(f) ==
    /\ f.virtual_lines >= 0
    /\ IsSome(f.peeked_grapheme) => Unwrap(f.peeked_grapheme).virtual_lines >= 0

\* every height consumed is in row once, or still pending
RowAccounted(f) ==
    f.visual_pos.row = NewlinesYielded + f.soft_wraps + f.lines_consumed - PendingLines(f)

\* C35: under soft wrap, for every TextFormat, the pending virtual-row
\* counter never underflows, and row is the Newlines yielded plus the soft
\* wraps performed plus the heights consumed minus the heights still pending.
C35_VirtualRowsNeverUnderflow ==
    (config.soft_wrap /\ IsSome(formatter)) =>
        /\ NoUnderflow(Unwrap(formatter))
        /\ RowAccounted(Unwrap(formatter))

\* the accounting of rows alone, in both modes
RowsAccounted == IsSome(formatter) => RowAccounted(Unwrap(formatter))

\* --------------------------------------- the document graphemes of the block
\* the document clusters yielded so far, in the order of the calls
DocToksYielded == DocToksBefore(Len(results) + 1)

\* the sum of doc_chars over the items yielded so far
DocCharsYielded ==
    SumSeq([j \in Calls |-> IF Yielded(j) THEN Item(j).doc_chars ELSE 0])

\* the formatter has returned None
Finished == \E i \in Calls : ~Yielded(i)

\* C36: in both modes the document graphemes yielded so far are the first
\* ones of the block, each once and in document order; when the formatter
\* has returned None they are all the graphemes from the block start to the
\* end of the document, and the doc_chars yielded sum to the chars between
\* the two.
C36_EveryDocGraphemeOnce ==
    /\ Len(DocToksYielded) <= Len(text) + 1 - FirstTok
    /\ \A k \in 1..Len(DocToksYielded) : DocToksYielded[k] = FirstTok + k - 1
    /\ Finished =>
          /\ Len(DocToksYielded) = Len(text) + 1 - FirstTok
          /\ DocCharsYielded = TextLenChars(text) - block_char_idx

\* the same, without soft wrap
OnceWithoutSoftWrap == ~config.soft_wrap => C36_EveryDocGraphemeOnce

\* --------------------------------------------- positions without soft wrap
IsNewline(i) == Yielded(i) /\ Item(i).grapheme.kind = "Newline"

\* the call that yielded the most recent Newline before call i, 0 if none
RECURSIVE LastNewlineBefore(_)
LastNewlineBefore(i) ==
    IF i <= 1 THEN 0
    ELSE IF IsNewline(i - 1) THEN i - 1 ELSE LastNewlineBefore(i - 1)

\* the heights of the line annotations of one slice anchored at char index p
SliceHeightAt(slice, p) ==
    SumSeq([k \in 1..Len(slice) |->
               IF slice[k].char_idx = p THEN slice[k].height ELSE 0])

\* the heights of the line annotations of every layer anchored at p
HeightAt(p) ==
    SumSeq([l \in 1..Len(annotations.line_annotations) |->
               SliceHeightAt(annotations.line_annotations[l], p)])

\* the heights anchored at the document graphemes yielded by the calls 1..n
HeightsUpTo(n) ==
    SumSeq([j \in 1..n |-> IF IsDoc(j) THEN HeightAt(AnchorOf(j)) ELSE 0])

\* the Newline graphemes yielded by the calls before call i
NewlinesBefore(i) ==
    Len(SelectSeq([j \in 1..(i - 1) |-> j], LAMBDA j : IsNewline(j)))

\* the widths of the graphemes yielded by the calls m+1..i-1
WidthsBetween(m, i) ==
    SumSeq([j \in 1..(i - 1 - m) |->
               IF Yielded(m + j) THEN Item(m + j).grapheme.width ELSE 0])

\* the position the claim gives to the grapheme of call i
PlainPos(i) ==
    [row |-> NewlinesBefore(i) + HeightsUpTo(LastNewlineBefore(i)),
     col |-> WidthsBetween(LastNewlineBefore(i), i)]

\* C34: without soft wrap every grapheme is yielded at (r, c): r the
\* Newlines yielded before it plus the heights of the line annotations
\* anchored at the document graphemes consumed before the most recent
\* Newline, c the widths yielded since that Newline; a Tab is as wide as the
\* distance from its column to the next multiple of tab_width.
C34_PlainPositions ==
    ~config.soft_wrap =>
        \A i \in Calls : Yielded(i) =>
            /\ Pos(i) = PlainPos(i)
            /\ Item(i).grapheme.kind = "Tab" =>
                  Item(i).grapheme.width =
                      config.tab_width - (Pos(i).col % config.tab_width)

\* ------------------------------------------------- words wrapped as a whole
\* call i yielded the first grapheme of a visual row reached by a soft wrap
SoftWrapped(i) ==
    /\ i > 1 /\ Yielded(i) /\ Yielded(i - 1) /\ ~IsNewline(i - 1)
    /\ Pos(i).row # Pos(i - 1).row

IsOther(i) == Yielded(i) /\ Item(i).grapheme.kind = "Other"

\* the calls after the most recent Newline and before call i that yielded a
\* non-whitespace grapheme
OthersBefore(i) == {j \in (LastNewlineBefore(i) + 1)..(i - 1) : IsOther(j)}

FirstOf(S) == CHOOSE x \in S : \A y \in S : x <= y

\* the indent carried over to the row that call i starts: the column of the
\* first non-whitespace grapheme of the line, when one was yielded and its
\* column is at most max_indent_retain
IndentCarried(i) ==
    IF OthersBefore(i) # {}
       /\ Pos(FirstOf(OthersBefore(i))).col <= config.max_indent_retain
    THEN Pos(FirstOf(OthersBefore(i))).col ELSE 0

\* the width of the run of non-whitespace graphemes that ends with call i
RECURSIVE RunWidth(_)
RunWidth(i) ==
    IF i >= 1 /\ IsOther(i) THEN Item(i).grapheme.width + RunWidth(i - 1) ELSE 0

\* the width of the word around the wrap before call i: the run that ends
\* before it, and the grapheme of call i when it goes on with the run
WordWidth(i) ==
    RunWidth(i - 1) + (IF IsOther(i) THEN Item(i).grapheme.width ELSE 0)

\* a soft wrap starts the row at the line indent, and comes between two
\* graphemes of a word only when the word is wider than max_wrap
WrappedWhole ==
    \A i \in Calls : SoftWrapped(i) =>
        /\ Pos(i).col = IndentCarried(i) + config.wrap_indent
        /\ IsOther(i - 1) => WordWidth(i) > config.max_wrap

EndCol(i) == Pos(i).col + Item(i).grapheme.width

\* a word is split where the next grapheme no longer fits: what is before
\* the split ends at or before viewport_width, and the grapheme after it
\* would have extended past it
SplitAtEdge ==
    \A i \in Calls : (SoftWrapped(i) /\ IsOther(i - 1) /\ IsOther(i)) =>
        /\ EndCol(i - 1) <= config.viewport_width
        /\ EndCol(i - 1) + Item(i).grapheme.width > config.viewport_width

\* a grapheme carried over is yielded: the formatter does not end with it
CarriedIsYielded(f) == IsSome(f.peeked_grapheme) => ~Finished

\* C33: under soft wrap a word wider than max_wrap is split at the line
\* edge: its graphemes stay on the row up to viewport_width, and the first
\* grapheme that would extend past it is carried over and yielded at the
\* start of the next visual row, with the virtual rows it had reserved
\* (here for the formats in which a wrapped word fits on its line).
C33_LongWordSplitAtEdge ==
    (config.soft_wrap /\ WrapFits(config) /\ IsSome(formatter)) =>
        /\ SplitAtEdge
        /\ CarriedIsYielded(Unwrap(formatter))
        /\ RowAccounted(Unwrap(formatter))

\* the split alone
SplitsAtEdge == (config.soft_wrap /\ WrapFits(config)) => SplitAtEdge

\* the same as C33 where the widest grapheme is at most max_wrap wide
SplitWhenNarrow ==
    (config.soft_wrap => config.max_wrap >= 2) => C33_LongWordSplitAtEdge

\* -------------------------------------------------- the parent of every node
\* the index of the node whose path is the path of the node at idx without
\* its last component, NO_PARENT for a root node
ParentOf(list, idx) ==
    LET path == list[idx + 1].path
        parents == FindPath(list, Len(list), SubSeq(path, 1, Len(path) - 1))
    IN IF Len(path) <= 1 \/ parents = {} THEN NO_PARENT
       ELSE CHOOSE j \in parents : TRUE

\* parent_idx of the node at idx returns, and returns its parent
ParentIdxValid(idx) ==
    /\ ~parent_idx(nodes, idx).panic
    /\ parent_idx(nodes, idx).idx = ParentOf(nodes, idx)

\* C38: between the calls of expand and refresh (and of collapse and
\* reveal_path), parent_idx of every node returns the index of the node
\* whose path is its path without the last component, NO_PARENT for a root
\* node, without indexing outside the slice of the nodes before it.
C38_ParentIdxNeverPanics ==
    tree_pc = "idle" => \A idx \in 0..(Len(nodes) - 1) : ParentIdxValid(idx)

\* the same for a Tree that is never refreshed
NeverRefreshed == [](tree_pc # "refresh")

ValidWithoutRefresh == NeverRefreshed => []C38_ParentIdxNeverPanics

\* ---------------------------------------------- the selection of the Tree
\* the last call was made with the selection on a node
WasSelected == last_call.selection < Len(last_call.before)

\* the path of the node the selection was on before the last call
SelectedBefore == last_call.before[last_call.selection + 1].path

\* before the last call, collapse(idx), the selection was strictly inside
\* the subtree of idx
InsideCollapsed ==
    /\ last_call.op = "collapse"
    /\ Len(SelectedBefore) > Len(last_call.before[last_call.arg + 1].path)
    /\ IsPrefix(last_call.before[last_call.arg + 1].path, SelectedBefore)

\* the path the selection is to be on after the last call
SelectedAfter ==
    IF InsideCollapsed THEN last_call.before[last_call.arg + 1].path
    ELSE SelectedBefore

\* expand and collapse leave the selection on its node
SelectionKept ==
    (last_call.op \in {"expand", "collapse"} /\ WasSelected) =>
        /\ selection < Len(nodes)
        /\ nodes[selection + 1].path = SelectedAfter

\* the calls after which top <= selection is claimed
MovesSelection ==
    last_call.op \in {"set_selection", "move_up", "move_down", "expand", "collapse"}

\* C31: expand(idx) and collapse(idx) leave the selection on the node it was
\* on, whatever is collapsed after idx, except that collapse(idx) moves a
\* selection strictly inside the subtree of idx to idx; and after every
\* set_selection, move_up, move_down, expand and collapse that returned,
\* top <= selection.
C31_SelectionStaysOnNode ==
    tree_pc = "idle" =>
        /\ SelectionKept
        /\ MovesSelection => top <= selection

\* the two halves of C31
SelectionIsKept == tree_pc = "idle" => SelectionKept

TopAboveSelection == (tree_pc = "idle" /\ MovesSelection) => top <= selection


====
